---- MODULE Spec2Model ----
(***************************************************************************)
(* A model of the pcap-analyzer backend: the job queue and worker pool,    *)
(* the analysis orchestrator (AnalyzePCAP), the TCP/UDP/ICMP flow trackers *)
(* and the passive OS fingerprint engine.                                  *)
(*                                                                         *)
(* Go strings are modelled as sequences of byte values, so that string     *)
(* comparison, formatting, lower-casing and substring search are computed  *)
(* the way the Go runtime computes them.                                   *)
(***************************************************************************)
EXTENDS Integers, Sequences, FiniteSets, TLC

----------------------------------------------------------------------------
(* Byte strings *)

\* Sample addresses (net.IP.String() output) and link-layer addresses.
IP_Client == <<49,48,46,48,46,48,46,53>>  \* '10.0.0.5'
IP_Server == <<57,51,46,49,56,52,46,50,49,54,46,51,52>>  \* '93.184.216.34'
IP_Lan == <<49,57,50,46,49,54,56,46,49,46,49,48>>  \* '192.168.1.10'
IP6_Local == <<102,101,56,48,58,58,49>>  \* 'fe80::1'
IP6_Public == <<50,48,48,49,58,100,98,56,58,58,49>>  \* '2001:db8::1'
MAC_A == <<97,97,58,98,98,58,99,99,58,48,48,58,48,48,58,48,49>>  \* 'aa:bb:cc:00:00:01'
MAC_B == <<97,97,58,98,98,58,99,99,58,48,48,58,48,48,58,48,50>>  \* 'aa:bb:cc:00:00:02'

\* Go's < on strings: bytewise lexicographic, a proper prefix is smaller.
StrLess(a, b) ==
  LET n == IF Len(a) < Len(b) THEN Len(a) ELSE Len(b) IN
  IF \E i \in 1..n : a[i] # b[i]
  THEN LET k == CHOOSE i \in 1..n : a[i] # b[i] /\ \A j \in 1..(i - 1) : a[j] = b[j]
       IN a[k] < b[k]
  ELSE Len(a) < Len(b)

\* strings.Contains
Contains(s, substr) ==
  \E i \in 0..(Len(s) - Len(substr)) : SubSeq(s, i + 1, i + Len(substr)) = substr

\* strings.HasPrefix
HasPrefix(s, prefix) ==
  Len(s) >= Len(prefix) /\ SubSeq(s, 1, Len(prefix)) = prefix

\* strings.ToLower on ASCII text
ToLower(s) == [i \in 1..Len(s) |-> IF s[i] \in 65..90 THEN s[i] + 32 ELSE s[i]]

\* The %d verb of fmt.Sprintf for a non-negative int: decimal digits.
RECURSIVE Itoa(_)
Itoa(n) == IF n < 10 THEN <<48 + n>> ELSE Itoa(n \div 10) \o <<48 + (n % 10)>>

----------------------------------------------------------------------------
(* OS fingerprint engine (os_fingerprint.go) *)

\* The substrings the analyzers look for.
N_UserAgent == <<85,115,101,114,45,65,103,101,110,116,58>>  \* 'User-Agent:'
N_windows_nt == <<119,105,110,100,111,119,115,32,110,116>>  \* 'windows nt'
N_win64 == <<119,105,110,54,52>>  \* 'win64'
N_wow64 == <<119,111,119,54,52>>  \* 'wow64'
N_windows_nt_10_0 == <<119,105,110,100,111,119,115,32,110,116,32,49,48,46,48>>  \* 'windows nt 10.0'
N_windows_nt_6_3 == <<119,105,110,100,111,119,115,32,110,116,32,54,46,51>>  \* 'windows nt 6.3'
N_windows_nt_6_2 == <<119,105,110,100,111,119,115,32,110,116,32,54,46,50>>  \* 'windows nt 6.2'
N_windows_nt_6_1 == <<119,105,110,100,111,119,115,32,110,116,32,54,46,49>>  \* 'windows nt 6.1'
N_linux == <<108,105,110,117,120>>  \* 'linux'
N_android == <<97,110,100,114,111,105,100>>  \* 'android'
N_ubuntu == <<117,98,117,110,116,117>>  \* 'ubuntu'
N_fedora == <<102,101,100,111,114,97>>  \* 'fedora'
N_debian == <<100,101,98,105,97,110>>  \* 'debian'
N_macintosh == <<109,97,99,105,110,116,111,115,104>>  \* 'macintosh'
N_mac_os_x == <<109,97,99,32,111,115,32,120>>  \* 'mac os x'
N_iphone == <<105,112,104,111,110,101>>  \* 'iphone'
N_ipad == <<105,112,97,100>>  \* 'ipad'
N_SSH == <<83,83,72,45>>  \* 'SSH-'
N_openssh == <<111,112,101,110,115,115,104>>  \* 'openssh'

\* Sample application payloads.
P_HttpWin10 == <<85,115,101,114,45,65,103,101,110,116,58,32,77,111,122,105,108,108,97,47,53,46,48,32,40,87,105,110,100,111,119,115,32,78,84,32,49,48,46,48,59,32,87,105,110,54,52,59,32,120,54,52,41>>  \* 'User-Agent: Mozilla/5.0 (Windows NT 10.0; Win64; x64)'
P_HttpWin == <<85,115,101,114,45,65,103,101,110,116,58,32,99,117,114,108,32,40,87,105,110,54,52,41>>  \* 'User-Agent: curl (Win64)'
P_HttpUbuntu == <<85,115,101,114,45,65,103,101,110,116,58,32,77,111,122,105,108,108,97,47,53,46,48,32,40,88,49,49,59,32,85,98,117,110,116,117,59,32,76,105,110,117,120,32,120,56,54,95,54,52,41>>  \* 'User-Agent: Mozilla/5.0 (X11; Ubuntu; Linux x86_64)'
P_HttpAndroid == <<85,115,101,114,45,65,103,101,110,116,58,32,77,111,122,105,108,108,97,47,53,46,48,32,40,76,105,110,117,120,59,32,65,110,100,114,111,105,100,32,49,51,41>>  \* 'User-Agent: Mozilla/5.0 (Linux; Android 13)'
P_HttpMac == <<85,115,101,114,45,65,103,101,110,116,58,32,77,111,122,105,108,108,97,47,53,46,48,32,40,77,97,99,105,110,116,111,115,104,59,32,73,110,116,101,108,32,77,97,99,32,79,83,32,88,32,49,48,95,49,53,41>>  \* 'User-Agent: Mozilla/5.0 (Macintosh; Intel Mac OS X 10_15)'
P_HttpIPhone == <<85,115,101,114,45,65,103,101,110,116,58,32,77,111,122,105,108,108,97,47,53,46,48,32,40,105,80,104,111,110,101,59,32,67,80,85,32,105,80,104,111,110,101,32,79,83,32,49,54,32,108,105,107,101,32,77,97,99,32,79,83,32,88,41>>  \* 'User-Agent: Mozilla/5.0 (iPhone; CPU iPhone OS 16 like Mac OS X)'
P_HttpNoUA == <<71,69,84,32,47,32,72,84,84,80,47,49,46,49>>  \* 'GET / HTTP/1.1'
P_HttpLowerUA == <<117,115,101,114,45,97,103,101,110,116,58,32,119,105,110,100,111,119,115,32,110,116,32,49,48,46,48>>  \* 'user-agent: windows nt 10.0'
P_SshUbuntu == <<83,83,72,45,50,46,48,45,79,112,101,110,83,83,72,95,56,46,50,112,49,32,85,98,117,110,116,117,45,52,117,98,117,110,116,117,48,46,53>>  \* 'SSH-2.0-OpenSSH_8.2p1 Ubuntu-4ubuntu0.5'
P_SshDebian == <<83,83,72,45,50,46,48,45,79,112,101,110,83,83,72,95,55,46,52,112,49,32,68,101,98,105,97,110,45,49,48>>  \* 'SSH-2.0-OpenSSH_7.4p1 Debian-10'
P_SshGeneric == <<83,83,72,45,50,46,48,45,79,112,101,110,83,83,72,95,55,46,52>>  \* 'SSH-2.0-OpenSSH_7.4'
P_SshOther == <<83,83,72,45,50,46,48,45,100,114,111,112,98,101,97,114,95,50,48,50,48,46,56,49>>  \* 'SSH-2.0-dropbear_2020.81'
P_NotSsh == <<72,69,76,76,79,32,83,83,72,45,50,46,48,45,79,112,101,110,83,83,72,32,85,98,117,110,116,117>>  \* 'HELLO SSH-2.0-OpenSSH Ubuntu'
P_Dhcp == <<1,1,6>>  \* '\x01\x01\x06'
P_Data == <<97,98,99>>  \* 'abc'
P_Hello == <<104,101,108,108,111>>  \* 'hello'

HttpPayloads == {P_HttpWin10, P_HttpWin, P_HttpUbuntu, P_HttpAndroid, P_HttpMac,
                 P_HttpIPhone, P_HttpNoUA, P_HttpLowerUA}
SshPayloads == {P_SshUbuntu, P_SshDebian, P_SshGeneric, P_SshOther, P_NotSsh}
SamplePayloads == HttpPayloads \cup SshPayloads \cup {P_Dhcp, P_Data, P_Hello, <<>>}
Needles == {N_windows_nt, N_win64, N_wow64, N_windows_nt_10_0, N_windows_nt_6_3,
            N_windows_nt_6_2, N_windows_nt_6_1, N_linux, N_android, N_ubuntu,
            N_fedora, N_debian, N_macintosh, N_mac_os_x, N_iphone, N_ipad,
            N_openssh}

\* strings.Contains(strings.ToLower(payload), needle), tabulated once for the
\* sample payloads.
LowerHits == [p \in SamplePayloads |-> {n \in Needles : Contains(ToLower(p), n)}]
LowerContains(payload, needle) == needle \in LowerHits[payload]

OSInfo(osType, confidence, signals) ==
  [OSType |-> osType, Confidence |-> confidence, Signals |-> signals]

\* NewOSFingerprinter: an empty results map.
NewOSFingerprinter == << >>

\* The "if _, exists := o.results[srcIP]; !exists" prologue of every analyzer.
EnsureInfo(results, srcIP) ==
  IF srcIP \in DOMAIN results THEN results
  ELSE results @@ (srcIP :> OSInfo("Unknown", 0, <<>>))

\* Window sizes and TTL ranges of AnalyzeTCP.
WindowsWindowSizes == {8192, 64240, 65535}
LinuxWindowSizes == {5840, 14600, 29200}

\* AnalyzeTCP, the Windows window-size block.
TCPWindowWindows(info, windowSize) ==
  IF windowSize \in WindowsWindowSizes
  THEN LET i == [info EXCEPT !.Signals = Append(@, "tcp_window_windows")] IN
       IF i.OSType = "Unknown" THEN [i EXCEPT !.OSType = "Windows", !.Confidence = 40]
       ELSE IF i.OSType = "Windows" THEN [i EXCEPT !.Confidence = @ + 10]
       ELSE i
  ELSE info

\* A Linux window-size block that adds 10 to the confidence of an unlabeled
\* address where the code sets it to 40.
TCPWindowLinuxAdds(info, windowSize) ==
  IF windowSize \in LinuxWindowSizes
  THEN LET i == [info EXCEPT !.Signals = Append(@, "tcp_window_linux")] IN
       IF i.OSType = "Unknown" THEN [i EXCEPT !.OSType = "Linux", !.Confidence = @ + 10]
       ELSE IF i.OSType = "Linux" THEN [i EXCEPT !.Confidence = @ + 10]
       ELSE i
  ELSE info

\* AnalyzeTCP, the Linux window-size block.
TCPWindowLinux(info, windowSize) ==
  IF windowSize \in LinuxWindowSizes
  THEN LET i == [info EXCEPT !.Signals = Append(@, "tcp_window_linux")] IN
       IF i.OSType = "Unknown" THEN [i EXCEPT !.OSType = "Linux", !.Confidence = 40]
       ELSE IF i.OSType = "Linux" THEN [i EXCEPT !.Confidence = @ + 10]
       ELSE i
  ELSE info

\* A TTL block whose signal relabels an address whatever its label is.
TCPTTLOverrides(info, ttl) ==
  IF ttl <= 64 /\ ttl > 32
  THEN [info EXCEPT !.Signals = Append(@, "ttl_linux"),
                    !.OSType = "Linux", !.Confidence = @ + 5]
  ELSE IF ttl <= 128 /\ ttl > 64
  THEN [info EXCEPT !.Signals = Append(@, "ttl_windows"),
                    !.OSType = "Windows", !.Confidence = @ + 5]
  ELSE info

\* AnalyzeTCP, the TTL block.
TCPTTL(info, ttl) ==
  IF ttl <= 64 /\ ttl > 32
  THEN LET i == [info EXCEPT !.Signals = Append(@, "ttl_linux")] IN
       IF i.OSType = "Unknown" \/ i.OSType = "Linux"
       THEN [i EXCEPT !.OSType = "Linux", !.Confidence = @ + 5]
       ELSE i
  ELSE IF ttl <= 128 /\ ttl > 64
  THEN LET i == [info EXCEPT !.Signals = Append(@, "ttl_windows")] IN
       IF i.OSType = "Unknown" \/ i.OSType = "Windows"
       THEN [i EXCEPT !.OSType = "Windows", !.Confidence = @ + 5]
       ELSE i
  ELSE info

\* A mutant of AnalyzeTCP: a repeated window signal resets the confidence to 40
\* where the code adds 10 to it.
AnalyzeTCPResets(results, srcIP, windowSize, ttl) ==
  LET r == EnsureInfo(results, srcIP)
      reset(info, sizes, tag, os) ==
        IF windowSize \in sizes
        THEN LET i == [info EXCEPT !.Signals = Append(@, tag)] IN
             IF i.OSType \in {"Unknown", os}
             THEN [i EXCEPT !.OSType = os, !.Confidence = 40] ELSE i
        ELSE info
  IN [r EXCEPT ![srcIP] =
        TCPTTL(reset(reset(r[srcIP], WindowsWindowSizes, "tcp_window_windows", "Windows"),
                     LinuxWindowSizes, "tcp_window_linux", "Linux"), ttl)]

\* AnalyzeTCP(srcIP, tcp, ipv4): reads tcp.Window and ipv4.TTL.
AnalyzeTCP(results, srcIP, windowSize, ttl) ==
  LET r == EnsureInfo(results, srcIP) IN
  [r EXCEPT ![srcIP] = TCPTTL(TCPWindowLinux(TCPWindowWindows(r[srcIP], windowSize), windowSize), ttl)]

\* A Windows block that yields to a label set before: it labels an address
\* only while the address is 'Unknown'.
HTTPWindowsYields(info, ua) ==
  IF (LowerContains(ua, N_windows_nt) \/ LowerContains(ua, N_win64) \/ LowerContains(ua, N_wow64))
     /\ info.OSType = "Unknown"
  THEN LET i == [info EXCEPT !.Signals = Append(@, "http_ua_windows")] IN
       IF LowerContains(ua, N_windows_nt_10_0)
       THEN [i EXCEPT !.OSType = "Windows 10/11", !.Confidence = 95]
       ELSE [i EXCEPT !.OSType = "Windows", !.Confidence = 90]
  ELSE info

\* AnalyzeHTTP, one block per operating system, applied in the code's order.
HTTPWindows(info, ua) ==
  IF LowerContains(ua, N_windows_nt) \/ LowerContains(ua, N_win64) \/ LowerContains(ua, N_wow64)
  THEN LET i == [info EXCEPT !.Signals = Append(@, "http_ua_windows")] IN
       IF LowerContains(ua, N_windows_nt_10_0)
       THEN [i EXCEPT !.OSType = "Windows 10/11", !.Confidence = 95]
       ELSE IF LowerContains(ua, N_windows_nt_6_3)
       THEN [i EXCEPT !.OSType = "Windows 8.1", !.Confidence = 95]
       ELSE IF LowerContains(ua, N_windows_nt_6_2)
       THEN [i EXCEPT !.OSType = "Windows 8", !.Confidence = 95]
       ELSE IF LowerContains(ua, N_windows_nt_6_1)
       THEN [i EXCEPT !.OSType = "Windows 7", !.Confidence = 95]
       ELSE [i EXCEPT !.OSType = "Windows", !.Confidence = 90]
  ELSE info

HTTPLinux(info, ua) ==
  IF LowerContains(ua, N_linux) /\ ~LowerContains(ua, N_android)
  THEN LET i == [info EXCEPT !.Signals = Append(@, "http_ua_linux")] IN
       IF LowerContains(ua, N_ubuntu)
       THEN [i EXCEPT !.OSType = "Linux (Ubuntu)", !.Confidence = 95]
       ELSE IF LowerContains(ua, N_fedora)
       THEN [i EXCEPT !.OSType = "Linux (Fedora)", !.Confidence = 95]
       ELSE IF LowerContains(ua, N_debian)
       THEN [i EXCEPT !.OSType = "Linux (Debian)", !.Confidence = 95]
       ELSE [i EXCEPT !.OSType = "Linux", !.Confidence = 90]
  ELSE info

HTTPMacOS(info, ua) ==
  IF LowerContains(ua, N_macintosh) \/ LowerContains(ua, N_mac_os_x)
  THEN [info EXCEPT !.Signals = Append(@, "http_ua_macos"),
                    !.OSType = "macOS", !.Confidence = 90]
  ELSE info

\* A mutant of HTTPAndroid: the confidence is added to, not set.
HTTPAndroidAdds(info, ua) ==
  IF LowerContains(ua, N_android)
  THEN [info EXCEPT !.Signals = Append(@, "http_ua_android"),
                    !.OSType = "Android", !.Confidence = @ + 90]
  ELSE info

HTTPAndroid(info, ua) ==
  IF LowerContains(ua, N_android)
  THEN [info EXCEPT !.Signals = Append(@, "http_ua_android"),
                    !.OSType = "Android", !.Confidence = 90]
  ELSE info

HTTPiOS(info, ua) ==
  IF LowerContains(ua, N_iphone) \/ LowerContains(ua, N_ipad)
  THEN [info EXCEPT !.Signals = Append(@, "http_ua_ios"),
                    !.OSType = "iOS", !.Confidence = 90]
  ELSE info

\* AnalyzeHTTP(srcIP, payload)
AnalyzeHTTP(results, srcIP, payload) ==
  LET r == EnsureInfo(results, srcIP) IN
  IF ~Contains(payload, N_UserAgent) THEN r
  ELSE [r EXCEPT ![srcIP] =
          HTTPiOS(HTTPAndroid(HTTPMacOS(HTTPLinux(HTTPWindows(r[srcIP], payload),
                  payload), payload), payload), payload)]

\* An AnalyzeSSH whose generic OpenSSH block labels an address whatever its
\* label is.
AnalyzeSSHGenericOverrides(results, srcIP, payload) ==
  LET r == EnsureInfo(results, srcIP) IN
  IF ~HasPrefix(payload, N_SSH) THEN r
  ELSE LET i0 == r[srcIP]
           i1 == IF LowerContains(payload, N_ubuntu)
                 THEN [i0 EXCEPT !.Signals = Append(@, "ssh_ubuntu"),
                                 !.OSType = "Linux (Ubuntu)", !.Confidence = 85]
                 ELSE i0
           i2 == IF LowerContains(payload, N_debian)
                 THEN [i1 EXCEPT !.Signals = Append(@, "ssh_debian"),
                                 !.OSType = "Linux (Debian)", !.Confidence = 85]
                 ELSE i1
           i3 == IF LowerContains(payload, N_openssh)
                 THEN [i2 EXCEPT !.Signals = Append(@, "ssh_linux"),
                                 !.OSType = "Linux", !.Confidence = 70]
                 ELSE i2
       IN [r EXCEPT ![srcIP] = i3]

\* AnalyzeSSH(srcIP, payload)
AnalyzeSSH(results, srcIP, payload) ==
  LET r == EnsureInfo(results, srcIP) IN
  IF ~HasPrefix(payload, N_SSH) THEN r
  ELSE LET i0 == r[srcIP]
           i1 == IF LowerContains(payload, N_ubuntu)
                 THEN [i0 EXCEPT !.Signals = Append(@, "ssh_ubuntu"),
                                 !.OSType = "Linux (Ubuntu)", !.Confidence = 85]
                 ELSE i0
           i2 == IF LowerContains(payload, N_debian)
                 THEN [i1 EXCEPT !.Signals = Append(@, "ssh_debian"),
                                 !.OSType = "Linux (Debian)", !.Confidence = 85]
                 ELSE i1
           i3 == IF LowerContains(payload, N_openssh) /\ i2.OSType = "Unknown"
                 THEN [i2 EXCEPT !.Signals = Append(@, "ssh_linux"),
                                 !.OSType = "Linux", !.Confidence = 70]
                 ELSE i2
       IN [r EXCEPT ![srcIP] = i3]

\* An AnalyzeDHCP that takes 5 from the confidence where the code adds 5.
AnalyzeDHCPSubtracts(results, srcIP, payload) ==
  LET r == EnsureInfo(results, srcIP) IN
  IF Len(payload) > 0
  THEN [r EXCEPT ![srcIP] = [@ EXCEPT !.Signals = Append(@, "dhcp_seen"),
                                      !.Confidence = @ - 5]]
  ELSE r

\* AnalyzeDHCP(srcIP, payload)
AnalyzeDHCP(results, srcIP, payload) ==
  LET r == EnsureInfo(results, srcIP) IN
  IF Len(payload) > 0
  THEN [r EXCEPT ![srcIP] = [@ EXCEPT !.Signals = Append(@, "dhcp_seen"),
                                      !.Confidence = @ + 5]]
  ELSE r

\* A mutant of GetResults: the results are returned as they are, not capped.
GetResultsUncapped(results) == results

\* GetResults: caps every confidence at 100 (in place) and returns the map.
GetResults(results) ==
  [ip \in DOMAIN results |->
     IF results[ip].Confidence > 100
     THEN [results[ip] EXCEPT !.Confidence = 100]
     ELSE results[ip]]

----------------------------------------------------------------------------
(* Service and address classification (pcap.go) *)

\* identifyService(port)
\* A classifier whose torrent range stops one port short.
identifyServiceShortRange(p) ==
  CASE p = 20 -> "ftp-data"
    [] p = 21 -> "ftp"
    [] p = 22 -> "ssh"
    [] p = 23 -> "telnet"
    [] p = 25 -> "smtp"
    [] p = 53 -> "dns"
    [] p \in {67, 68} -> "dhcp"
    [] p = 80 -> "http"
    [] p = 110 -> "pop3"
    [] p = 143 -> "imap"
    [] p = 443 -> "https"
    [] p = 445 -> "smb"
    [] p = 3389 -> "rdp"
    [] p = 3306 -> "mysql"
    [] p = 5432 -> "postgresql"
    [] p \in 6881..6888 -> "torrent"
    [] p = 6969 -> "torrent"
    [] OTHER -> "unknown"

identifyService(port) ==
  CASE port = 20 -> "ftp-data"
    [] port = 21 -> "ftp"
    [] port = 22 -> "ssh"
    [] port = 23 -> "telnet"
    [] port = 25 -> "smtp"
    [] port = 53 -> "dns"
    [] port \in {67, 68} -> "dhcp"
    [] port = 80 -> "http"
    [] port = 110 -> "pop3"
    [] port = 143 -> "imap"
    [] port = 443 -> "https"
    [] port = 445 -> "smb"
    [] port = 3389 -> "rdp"
    [] port = 3306 -> "mysql"
    [] port = 5432 -> "postgresql"
    [] port \in 6881..6889 -> "torrent"
    [] port = 6969 -> "torrent"
    [] OTHER -> "unknown"

\* The decimal number spelled by a string of digits.
RECURSIVE Atoi(_)
Atoi(digits) ==
  IF digits = <<>> THEN 0
  ELSE 10 * Atoi(SubSeq(digits, 1, Len(digits) - 1)) + (digits[Len(digits)] - 48)

\* The fields of s between occurrences of the byte sep.
RECURSIVE Split(_, _)
Split(s, sep) ==
  IF \A i \in 1..Len(s) : s[i] # sep THEN <<s>>
  ELSE LET i == CHOOSE k \in 1..Len(s) : s[k] = sep /\ \A j \in 1..(k - 1) : s[j] # sep
       IN <<SubSeq(s, 1, i - 1)>> \o Split(SubSeq(s, i + 1, Len(s)), sep)

IsDecimalByte(f) ==
  /\ Len(f) \in 1..3
  /\ \A i \in 1..Len(f) : f[i] \in 48..57
  /\ (Len(f) > 1 => f[1] # 48)
  /\ Atoi(f) <= 255

\* net.ParseIP for dotted-quad text: the four bytes, or <<>> when it is none.
ParseIPv4(s) ==
  LET f == Split(s, 46) IN
  IF Len(f) = 4 /\ \A i \in 1..4 : IsDecimalByte(f[i])
  THEN [i \in 1..4 |-> Atoi(f[i])]
  ELSE <<>>

HexVal(c) == IF c \in 48..57 THEN c - 48 ELSE IF c \in 97..102 THEN c - 87 ELSE c - 55

RECURSIVE HexToInt(_)
HexToInt(h) ==
  IF h = <<>> THEN 0
  ELSE 16 * HexToInt(SubSeq(h, 1, Len(h) - 1)) + HexVal(h[Len(h)])

IsHextet(f) ==
  /\ Len(f) \in 1..4
  /\ \A i \in 1..Len(f) : f[i] \in (48..57) \cup (97..102) \cup (65..70)

\* net.ParseIP for IPv6 text without an embedded dotted quad: the eight
\* 16-bit groups, or <<>> when it is none.
ParseIPv6(s) ==
  LET f == Split(s, 58)
      n == Len(f)
      gaps == {i \in 1..n : f[i] = <<>>}
      \* "::" shows as one empty field inside, or two at an end
      inner == {i \in gaps : i > 1 /\ i < n}
      lead == n >= 2 /\ f[1] = <<>> /\ f[2] = <<>>
      trail == n >= 2 /\ f[n] = <<>> /\ f[n - 1] = <<>>
      groups == SelectSeq(f, LAMBDA g : g # <<>>)
      wellFormed ==
        /\ n >= 2
        /\ \A i \in 1..Len(groups) : IsHextet(groups[i])
        /\ (f[1] = <<>> => lead)
        /\ (f[n] = <<>> => trail)
        /\ Cardinality(inner) <= 1
        /\ IF inner = {} THEN Len(groups) = 8 /\ gaps = {} ELSE Len(groups) <= 7
      gapAt == IF inner = {} THEN 0 ELSE CHOOSE i \in inner : TRUE
      before == Cardinality({i \in 1..n : i < gapAt /\ f[i] # <<>>})
      zeros == 8 - Len(groups)
  IN IF ~wellFormed THEN <<>>
     ELSE [i \in 1..8 |->
             IF i <= before THEN HexToInt(groups[i])
             ELSE IF i <= before + zeros THEN 0
             ELSE HexToInt(groups[i - zeros])]

\* isPublicIP(ipStr): false for an unparsable address and for an address in one
\* of the private ranges, true otherwise.
isPublicIP(ipStr) ==
  LET v4 == ParseIPv4(ipStr)
      v6 == ParseIPv6(ipStr)
  IN IF v4 # <<>>
     THEN ~ \/ v4[1] = 10
            \/ (v4[1] = 172 /\ v4[2] \in 16..31)
            \/ (v4[1] = 192 /\ v4[2] = 168)
            \/ v4[1] = 127
            \/ (v4[1] = 169 /\ v4[2] = 254)
     ELSE IF v6 # <<>>
     THEN ~ \/ v6 = <<0, 0, 0, 0, 0, 0, 0, 1>>
            \/ v6[1] \div 512 = 126      \* fc00::/7
            \/ v6[1] \div 64 = 1018      \* fe80::/10
     ELSE FALSE

----------------------------------------------------------------------------
(* Flow trackers (tcp.go, udp.go, icmp.go) *)

\* A packet event is a record
\*   [ts, net, src, dst, hasEth, mac, l4, sport, dport, syn, ack, fin, rst,
\*    window, ttl, paylen, hasApp, app]
\* ts is the capture timestamp in nanoseconds, net the network layer ("ipv4",
\* "ipv6", "other" or "none"), l4 the transport layer ("tcp", "udp", "icmp4" or
\* "none"), paylen the length of the transport payload and app the payload of
\* the application layer when the decoder produced one.

\* fmt.Sprintf("%s:%d-%s:%d", a, pa, b, pb)
SprintfKey(a, pa, b, pb) == a \o <<58>> \o Itoa(pa) \o <<45>> \o b \o <<58>> \o Itoa(pb)

\* A mutant of getStreamKey: the key is not normalized.
getStreamKeyDirected(srcIP, dstIP, srcPort, dstPort) ==
  SprintfKey(srcIP, srcPort, dstIP, dstPort)

\* TCPTracker.getStreamKey
getStreamKey(srcIP, dstIP, srcPort, dstPort) ==
  IF StrLess(srcIP, dstIP) \/ (srcIP = dstIP /\ srcPort < dstPort)
  THEN SprintfKey(srcIP, srcPort, dstIP, dstPort)
  ELSE SprintfKey(dstIP, dstPort, srcIP, srcPort)

\* UDPTracker.getFlowKey
getFlowKey(srcIP, dstIP, srcPort, dstPort) ==
  IF StrLess(srcIP, dstIP) \/ (srcIP = dstIP /\ srcPort < dstPort)
  THEN SprintfKey(srcIP, srcPort, dstIP, dstPort)
  ELSE SprintfKey(dstIP, dstPort, srcIP, srcPort)

\* The ICMP flow key, fmt.Sprintf("%s-%s", srcIP, dstIP)
\* A flow key that does not tell the two directions apart.
icmpKeyUndirected(srcIP, dstIP) == {srcIP, dstIP}

icmpKey(srcIP, dstIP) == srcIP \o <<45>> \o dstIP

\* NewTCPTracker, NewUDPTracker, NewICMPTracker
NewTCPTracker == [streams |-> << >>, Connections |-> {}]
NewUDPTracker == [flows |-> << >>, Connections |-> {}]
NewICMPTracker == [flows |-> << >>, Connections |-> {}]

\* The bytes a TCP or UDP packet is counted with: the application layer's
\* payload when there is one, the transport payload otherwise.
PacketSize(pkt) == IF pkt.hasApp THEN Len(pkt.app) ELSE pkt.paylen

\* A mutant of the byte accounting: the received counter is assigned the
\* packet's size where the code adds the size to it.
CountBytesAssign(rec, pkt) ==
  IF pkt.src = rec.SrcIP /\ pkt.sport = rec.SrcPort
  THEN [rec EXCEPT !.BytesSent = @ + PacketSize(pkt)]
  ELSE [rec EXCEPT !.BytesReceived = PacketSize(pkt)]

\* "Count bytes" and "Determine direction" of both ProcessPacket methods.
\* A byte accounting that takes the direction from the order of the normalized
\* key: the packets of the key's first endpoint count as sent.
CountBytesByKeyOrder(rec, pkt) ==
  IF StrLess(pkt.src, pkt.dst) \/ (pkt.src = pkt.dst /\ pkt.sport <= pkt.dport)
  THEN [rec EXCEPT !.BytesSent = @ + PacketSize(pkt)]
  ELSE [rec EXCEPT !.BytesReceived = @ + PacketSize(pkt)]

CountBytes(rec, pkt) ==
  IF pkt.src = rec.SrcIP /\ pkt.sport = rec.SrcPort
  THEN [rec EXCEPT !.BytesSent = @ + PacketSize(pkt)]
  ELSE [rec EXCEPT !.BytesReceived = @ + PacketSize(pkt)]

\* A tracker that resolves the service from the first packet's source port.
TCPProcessPacketBySource(t, pkt) ==
  LET key == getStreamKey(pkt.src, pkt.dst, pkt.sport, pkt.dport)
      stream == IF key \in DOMAIN t.streams THEN t.streams[key]
                ELSE [SrcIP |-> pkt.src, DstIP |-> pkt.dst,
                      SrcPort |-> pkt.sport, DstPort |-> pkt.dport,
                      BytesSent |-> 0, BytesReceived |-> 0,
                      StartTime |-> pkt.ts, EndTime |-> pkt.ts,
                      Service |-> identifyService(pkt.sport),
                      SYNSeen |-> FALSE, FINSeen |-> FALSE, RSTSeen |-> FALSE]
      s1 == [stream EXCEPT !.EndTime = pkt.ts,
                           !.SYNSeen = @ \/ (pkt.syn /\ ~pkt.ack),
                           !.FINSeen = @ \/ pkt.fin,
                           !.RSTSeen = @ \/ pkt.rst]
      s2 == CountBytes(s1, pkt)
  IN [t EXCEPT !.streams = (key :> s2) @@ @]

\* A tracker that closes a stream on FIN or RST: the next packet of the key
\* starts the record over.
TCPProcessPacketCloses(t, pkt) ==
  LET key == getStreamKey(pkt.src, pkt.dst, pkt.sport, pkt.dport)
      fresh == [SrcIP |-> pkt.src, DstIP |-> pkt.dst,
                SrcPort |-> pkt.sport, DstPort |-> pkt.dport,
                BytesSent |-> 0, BytesReceived |-> 0,
                StartTime |-> pkt.ts, EndTime |-> pkt.ts,
                Service |-> identifyService(pkt.dport),
                SYNSeen |-> FALSE, FINSeen |-> FALSE, RSTSeen |-> FALSE]
      stream == IF key \in DOMAIN t.streams
                   /\ ~t.streams[key].FINSeen /\ ~t.streams[key].RSTSeen
                THEN t.streams[key] ELSE fresh
      s1 == [stream EXCEPT !.EndTime = pkt.ts,
                           !.SYNSeen = @ \/ (pkt.syn /\ ~pkt.ack),
                           !.FINSeen = @ \/ pkt.fin,
                           !.RSTSeen = @ \/ pkt.rst]
      s2 == CountBytes(s1, pkt)
  IN [t EXCEPT !.streams = (key :> s2) @@ @]

\* TCPTracker.ProcessPacket
TCPProcessPacket(t, pkt) ==
  LET key == getStreamKey(pkt.src, pkt.dst, pkt.sport, pkt.dport)
      stream == IF key \in DOMAIN t.streams THEN t.streams[key]
                ELSE [SrcIP |-> pkt.src, DstIP |-> pkt.dst,
                      SrcPort |-> pkt.sport, DstPort |-> pkt.dport,
                      BytesSent |-> 0, BytesReceived |-> 0,
                      StartTime |-> pkt.ts, EndTime |-> pkt.ts,
                      Service |-> identifyService(pkt.dport),
                      SYNSeen |-> FALSE, FINSeen |-> FALSE, RSTSeen |-> FALSE]
      s1 == [stream EXCEPT !.EndTime = pkt.ts,
                           !.SYNSeen = @ \/ (pkt.syn /\ ~pkt.ack),
                           !.FINSeen = @ \/ pkt.fin,
                           !.RSTSeen = @ \/ pkt.rst]
      s2 == CountBytes(s1, pkt)
  IN [t EXCEPT !.streams = (key :> s2) @@ @]

\* A tracker that resolves the service of every flow anew from each packet's
\* destination port, without the source port fallback.
UDPProcessPacketRelabels(u, pkt) ==
  LET key == getFlowKey(pkt.src, pkt.dst, pkt.sport, pkt.dport)
      flow == IF key \in DOMAIN u.flows THEN u.flows[key]
              ELSE [SrcIP |-> pkt.src, DstIP |-> pkt.dst,
                    SrcPort |-> pkt.sport, DstPort |-> pkt.dport,
                    BytesSent |-> 0, BytesReceived |-> 0,
                    StartTime |-> pkt.ts, EndTime |-> pkt.ts,
                    Service |-> "unknown"]
      f1 == [flow EXCEPT !.EndTime = pkt.ts, !.Service = identifyService(pkt.dport)]
      f2 == CountBytes(f1, pkt)
  IN [u EXCEPT !.flows = (key :> f2) @@ @]

\* UDPTracker.ProcessPacket
UDPProcessPacket(u, pkt) ==
  LET key == getFlowKey(pkt.src, pkt.dst, pkt.sport, pkt.dport)
      service == IF identifyService(pkt.dport) = "unknown"
                 THEN identifyService(pkt.sport)
                 ELSE identifyService(pkt.dport)
      flow == IF key \in DOMAIN u.flows THEN u.flows[key]
              ELSE [SrcIP |-> pkt.src, DstIP |-> pkt.dst,
                    SrcPort |-> pkt.sport, DstPort |-> pkt.dport,
                    BytesSent |-> 0, BytesReceived |-> 0,
                    StartTime |-> pkt.ts, EndTime |-> pkt.ts,
                    Service |-> service]
      f1 == [flow EXCEPT !.EndTime = pkt.ts]
      f2 == CountBytes(f1, pkt)
  IN [u EXCEPT !.flows = (key :> f2) @@ @]

\* The fixed size an ICMP message is counted with.
ICMPHeaderSize == 8

\* ICMPTracker.ProcessPacket
ICMPProcessPacket(i, pkt) ==
  LET key == icmpKey(pkt.src, pkt.dst)
      flow == IF key \in DOMAIN i.flows THEN i.flows[key]
              ELSE [SrcIP |-> pkt.src, DstIP |-> pkt.dst, BytesSent |-> 0,
                    StartTime |-> pkt.ts, EndTime |-> pkt.ts]
      f1 == [flow EXCEPT !.EndTime = pkt.ts, !.BytesSent = @ + ICMPHeaderSize]
  IN [i EXCEPT !.flows = (key :> f1) @@ @]

NanosPerMilli == 1000000

\* time.Duration.Milliseconds: integer division truncating toward zero.
Milliseconds(d) == IF d >= 0 THEN d \div NanosPerMilli ELSE -((-d) \div NanosPerMilli)

\* TCPTracker.Finalize: one TCPConnectionInfo per stream.  The map is walked
\* in no particular order, so Connections is kept as a collection; two streams
\* never yield the same record, their first-seen endpoints differ.
TCPFinalize(t) ==
  [t EXCEPT !.Connections = @ \cup
     { [SrcIP |-> t.streams[k].SrcIP, DstIP |-> t.streams[k].DstIP,
        SrcPort |-> t.streams[k].SrcPort, DstPort |-> t.streams[k].DstPort,
        BytesSent |-> t.streams[k].BytesSent,
        BytesReceived |-> t.streams[k].BytesReceived,
        DurationMs |-> Milliseconds(t.streams[k].EndTime - t.streams[k].StartTime),
        Service |-> t.streams[k].Service,
        StartTime |-> t.streams[k].StartTime,
        EndTime |-> t.streams[k].EndTime] : k \in DOMAIN t.streams }]

\* UDPTracker.Finalize
UDPFinalize(u) ==
  [u EXCEPT !.Connections = @ \cup
     { [SrcIP |-> u.flows[k].SrcIP, DstIP |-> u.flows[k].DstIP,
        SrcPort |-> u.flows[k].SrcPort, DstPort |-> u.flows[k].DstPort,
        BytesSent |-> u.flows[k].BytesSent,
        BytesReceived |-> u.flows[k].BytesReceived,
        DurationMs |-> Milliseconds(u.flows[k].EndTime - u.flows[k].StartTime),
        Service |-> u.flows[k].Service,
        StartTime |-> u.flows[k].StartTime,
        EndTime |-> u.flows[k].EndTime] : k \in DOMAIN u.flows }]

\* ICMPTracker.Finalize
ICMPFinalize(i) ==
  [i EXCEPT !.Connections = @ \cup
     { [SrcIP |-> i.flows[k].SrcIP, DstIP |-> i.flows[k].DstIP,
        BytesSent |-> i.flows[k].BytesSent,
        DurationMs |-> Milliseconds(i.flows[k].EndTime - i.flows[k].StartTime),
        StartTime |-> i.flows[k].StartTime,
        EndTime |-> i.flows[k].EndTime] : k \in DOMAIN i.flows }]

----------------------------------------------------------------------------
(* Analysis orchestrator, the per-call state of AnalyzePCAP (pcap.go) *)

\* "Initialize tracking structures": the state one AnalyzePCAP call owns.
NewJobState ==
  [tcpTracker |-> NewTCPTracker, udpTracker |-> NewUDPTracker,
   icmpTracker |-> NewICMPTracker, osFingerprinter |-> NewOSFingerprinter,
   assetMap |-> << >>, targetMap |-> {}]

\* The OS fingerprinting calls made for a TCP packet.
FingerprintTCP(os, pkt) ==
  LET o1 == IF pkt.net = "ipv4" THEN AnalyzeTCP(os, pkt.src, pkt.window, pkt.ttl) ELSE os
      o2 == IF (pkt.dport = 80 \/ pkt.sport = 80) /\ pkt.hasApp
            THEN AnalyzeHTTP(o1, pkt.src, pkt.app) ELSE o1
      o3 == IF (pkt.dport = 22 \/ pkt.sport = 22) /\ pkt.hasApp
            THEN AnalyzeSSH(o2, pkt.src, pkt.app) ELSE o2
  IN o3

\* The OS fingerprinting call made for a UDP packet.
FingerprintUDP(os, pkt) ==
  IF (pkt.dport = 67 \/ pkt.sport = 67) /\ pkt.hasApp
  THEN AnalyzeDHCP(os, pkt.src, pkt.app) ELSE os

\* A packet loop that hands every packet with a network layer and neither a
\* TCP nor a UDP layer to the ICMP tracker.
HandlePacketTracksAll(st, pkt) ==
  IF pkt.net \notin {"ipv4", "ipv6"} THEN st
  ELSE
    LET a1 == IF pkt.src \in DOMAIN st.assetMap THEN st.assetMap
              ELSE st.assetMap @@
                   (pkt.src :> [IPAddress |-> pkt.src, OSType |-> "Unknown",
                                OSConfidence |-> 0, MACAddress |-> <<>>])
        a2 == IF pkt.hasEth THEN [a1 EXCEPT ![pkt.src].MACAddress = pkt.mac] ELSE a1
    IN [st EXCEPT
          !.assetMap = a2,
          !.targetMap = @ \cup {pkt.dst},
          !.tcpTracker = IF pkt.l4 = "tcp" THEN TCPProcessPacket(@, pkt) ELSE @,
          !.udpTracker = IF pkt.l4 = "udp" THEN UDPProcessPacket(@, pkt) ELSE @,
          !.icmpTracker = IF pkt.l4 \notin {"tcp", "udp"} THEN ICMPProcessPacket(@, pkt) ELSE @,
          !.osFingerprinter =
             IF pkt.l4 = "tcp" THEN FingerprintTCP(@, pkt)
             ELSE IF pkt.l4 = "udp" THEN FingerprintUDP(@, pkt)
             ELSE @]

\* The body of the packet loop of AnalyzePCAP, for one packet.
HandlePacket(st, pkt) ==
  IF pkt.net \notin {"ipv4", "ipv6"} THEN st
  ELSE
    LET a1 == IF pkt.src \in DOMAIN st.assetMap THEN st.assetMap
              ELSE st.assetMap @@
                   (pkt.src :> [IPAddress |-> pkt.src, OSType |-> "Unknown",
                                OSConfidence |-> 0, MACAddress |-> <<>>])
        a2 == IF pkt.hasEth THEN [a1 EXCEPT ![pkt.src].MACAddress = pkt.mac] ELSE a1
    IN [st EXCEPT
          !.assetMap = a2,
          !.targetMap = @ \cup {pkt.dst},
          !.tcpTracker = IF pkt.l4 = "tcp" THEN TCPProcessPacket(@, pkt) ELSE @,
          !.udpTracker = IF pkt.l4 = "udp" THEN UDPProcessPacket(@, pkt) ELSE @,
          !.icmpTracker = IF pkt.l4 = "icmp4" THEN ICMPProcessPacket(@, pkt) ELSE @,
          !.osFingerprinter =
             IF pkt.l4 = "tcp" THEN FingerprintTCP(@, pkt)
             ELSE IF pkt.l4 = "udp" THEN FingerprintUDP(@, pkt)
             ELSE @]

\* A merge that copies the label of a fingerprint and not its confidence.
ApplyOSResultsLabelOnly(assetMap, osResults) ==
  [ip \in DOMAIN assetMap |->
     IF ip \in DOMAIN osResults
     THEN [assetMap[ip] EXCEPT !.OSType = osResults[ip].OSType]
     ELSE assetMap[ip]]

\* "Apply OS fingerprinting results to assets"
ApplyOSResults(assetMap, osResults) ==
  [ip \in DOMAIN assetMap |->
     IF ip \in DOMAIN osResults
     THEN [assetMap[ip] EXCEPT !.OSType = osResults[ip].OSType,
                               !.OSConfidence = osResults[ip].Confidence]
     ELSE assetMap[ip]]

\* What AnalyzePCAP does between the end of the packet loop and the first
\* save: the trackers are finalized and the fingerprints merged into the assets.
FinalizeJob(st) ==
  [st EXCEPT
     !.tcpTracker = TCPFinalize(@),
     !.udpTracker = UDPFinalize(@),
     !.icmpTracker = ICMPFinalize(@),
     !.osFingerprinter = GetResults(@),
     !.assetMap = ApplyOSResults(@, GetResults(st.osFingerprinter))]

NanosPerSecond == 1000000000

\* time.Time.Format(time.RFC3339): whole seconds, the fraction is dropped.
FormatRFC3339(t) == t \div NanosPerSecond

\* The rows AnalyzePCAP hands to the database for a finalized job, by table.
AssetRows(st, analysisID) ==
  { [AnalysisID |-> analysisID, IPAddress |-> st.assetMap[ip].IPAddress,
     OSType |-> st.assetMap[ip].OSType,
     OSConfidence |-> st.assetMap[ip].OSConfidence,
     MACAddress |-> st.assetMap[ip].MACAddress] : ip \in DOMAIN st.assetMap }

\* Target rows that also list the addresses seen as a source.
TargetRowsWithSources(st, analysisID) ==
  { [AnalysisID |-> analysisID, IPAddress |-> ip,
     Label |-> IF isPublicIP(ip) THEN "public" ELSE "local"] :
     ip \in st.targetMap \cup DOMAIN st.assetMap }

TargetRows(st, analysisID) ==
  { [AnalysisID |-> analysisID, IPAddress |-> ip,
     Label |-> IF isPublicIP(ip) THEN "public" ELSE "local"] : ip \in st.targetMap }

TCPRows(st, analysisID) ==
  { [AnalysisID |-> analysisID, SrcIP |-> c.SrcIP, DstIP |-> c.DstIP,
     SrcPort |-> c.SrcPort, DstPort |-> c.DstPort,
     BytesSent |-> c.BytesSent, BytesReceived |-> c.BytesReceived,
     Protocol |-> "TCP", DurationMs |-> c.DurationMs, Service |-> c.Service,
     StartTime |-> FormatRFC3339(c.StartTime),
     EndTime |-> FormatRFC3339(c.EndTime)] : c \in st.tcpTracker.Connections }

UDPRows(st, analysisID) ==
  { [AnalysisID |-> analysisID, SrcIP |-> c.SrcIP, DstIP |-> c.DstIP,
     SrcPort |-> c.SrcPort, DstPort |-> c.DstPort,
     BytesSent |-> c.BytesSent, BytesReceived |-> c.BytesReceived,
     Protocol |-> "UDP", DurationMs |-> c.DurationMs, Service |-> c.Service,
     StartTime |-> FormatRFC3339(c.StartTime),
     EndTime |-> FormatRFC3339(c.EndTime)] : c \in st.udpTracker.Connections }

\* An ICMP row leaves the ports and BytesReceived at Go's zero value.
ICMPRows(st, analysisID) ==
  { [AnalysisID |-> analysisID, SrcIP |-> c.SrcIP, DstIP |-> c.DstIP,
     SrcPort |-> 0, DstPort |-> 0,
     BytesSent |-> c.BytesSent, BytesReceived |-> 0,
     Protocol |-> "ICMP", DurationMs |-> c.DurationMs, Service |-> "icmp",
     StartTime |-> FormatRFC3339(c.StartTime),
     EndTime |-> FormatRFC3339(c.EndTime)] : c \in st.icmpTracker.Connections }

\* The packet loop run to the end of a capture.
RECURSIVE RunPackets(_, _)
RunPackets(st, packets) ==
  IF packets = <<>> THEN st
  ELSE RunPackets(HandlePacket(st, Head(packets)), Tail(packets))

----------------------------------------------------------------------------
(* State *)

VARIABLES
  \* the fingerprint engine driven call by call
  fp,          \* OSFingerprinter.results
  fpPrev,      \* results as they were before the last call
  fpLast,      \* the last call: [op, ip, in], and whether it repeats the one before
  fpCalls,     \* number of analyzer calls made
  fpAssets,    \* the asset map the results are merged into
  \* one AnalyzePCAP call driven packet by packet
  job,         \* the call's tracking structures
  seen,        \* the packet events read so far
  jobPhase     \* "read" during the packet loop, "done" after finalization

fpVars == <<fp, fpPrev, fpLast, fpCalls, fpAssets>>
jobVars == <<job, seen, jobPhase>>

VARIABLES
  \* the HTTP side
  requests,     \* number of upload requests handled
  disk,         \* backend/uploads: path -> content
  senders,      \* UploadPCAP handlers at "analyzer.JobQueue <- job"
  \* the database
  analyses,     \* table analyses: id -> row
  nextID,       \* the next AUTOINCREMENT id of analyses
  db,           \* the record tables
  \* the worker pool
  queue,        \* analyzer.JobQueue
  wk,           \* per worker: position in Worker.Start / AnalyzePCAP
  slots,        \* the tracking structures of the calls in progress
  proc,         \* "running", "stopping" (WorkerPool.Stop called), "exited"
  quitPending,  \* per worker: a send on w.quit is waiting
  \* history
  runs,         \* per analysis: AnalyzePCAP calls started
  writes,       \* per analysis: the statuses written, in order
  result,       \* per analysis: what the last AnalyzePCAP call returned
  calling,      \* <<worker, analysis>> for each AnalyzePCAP call in progress
  dropped,      \* records whose save failed
  faults,       \* database statements that failed so far
  waiting       \* the analyses sent on JobQueue and not yet received, oldest first

httpVars == <<requests, disk, senders>>
dbVars == <<analyses, nextID, db>>
poolVars == <<queue, wk, slots, proc, quitPending>>
histVars == <<runs, writes, result, calling, dropped, faults, waiting>>
srvVars == <<httpVars, dbVars, poolVars, histVars>>

VARIABLES
  \* identifyService driven lookup by lookup
  lookupPort,     \* the port of the last lookup
  lookupService   \* what the lookup returned

VARIABLES
  \* the analysis handlers, request by request
  apiAnalyses,  \* table analyses as the handlers read it: id -> row
  apiNextID,    \* the next AUTOINCREMENT id
  apiUploads,   \* the file names present in backend/uploads
  owners,       \* history: the user each analysis was created for
  response      \* the last response of GetAnalysis or DeleteAnalysis

VARIABLES
  \* the analysis handlers called while the workers run
  viewer,       \* GetAnalysis in flight: where it is and the id it was called with
  shown,        \* the last response of GetAnalysis
  deleted       \* history: the ids DeleteAnalysis answered 200 for

VARIABLES
  \* the worker pool alone, with producers that never run out of jobs
  poolJobs,     \* the number of jobs in JobQueue
  loopAt,       \* where each worker's goroutine is: "select", "analyze", "returned"
  quitSend,     \* the goroutine of Worker.Stop: "none", "blocked" on w.quit, "done"
  stopCall      \* WorkerPool.Stop: "none", "waiting" in wg.Wait, "returned"

svcVars == <<lookupPort, lookupService>>
apiVars == <<apiAnalyses, apiNextID, apiUploads, owners, response>>
hVars == <<viewer, shown, deleted>>
stopVars == <<poolJobs, loopAt, quitSend, stopCall>>
libVars == <<svcVars, apiVars, hVars, stopVars>>

InitFp ==
  /\ fp = NewOSFingerprinter
  /\ fpPrev = NewOSFingerprinter
  /\ fpLast = [op |-> "NewOSFingerprinter", ip |-> <<>>, in |-> <<>>, repeat |-> FALSE]
  /\ fpCalls = 0
  /\ fpAssets = << >>

InitJob ==
  /\ job = NewJobState
  /\ seen = <<>>
  /\ jobPhase = "read"

----------------------------------------------------------------------------
(* The fingerprint engine, call by call *)

MaxCalls == 3

FpAddrs == {IP_Client, IP_Lan}
\* <<tcp.Window, ipv4.TTL>>
FpTCPInputs == {<<8192, 128>>, <<5840, 64>>, <<65535, 64>>, <<1024, 255>>}
FpHTTPInputs == {P_HttpWin10, P_HttpWin, P_HttpUbuntu, P_HttpAndroid, P_HttpNoUA}
FpSSHInputs == {P_SshUbuntu, P_SshGeneric, P_SshOther, P_NotSsh}
FpDHCPInputs == {P_Dhcp, <<>>}

\* "Track assets (source IPs)": every analyzer call in AnalyzePCAP is made for
\* a source address that already has its asset.
TrackAsset(assetMap, srcIP) ==
  IF srcIP \in DOMAIN assetMap THEN assetMap
  ELSE assetMap @@ (srcIP :> [IPAddress |-> srcIP, OSType |-> "Unknown",
                              OSConfidence |-> 0, MACAddress |-> <<>>])

FpCall(op, ip, in, results) ==
  /\ fpLast.op # "GetResults"
  /\ fpCalls < MaxCalls
  /\ fpCalls' = fpCalls + 1
  /\ fpPrev' = fp
  /\ fp' = results
  /\ fpLast' = [op |-> op, ip |-> ip, in |-> in,
                 repeat |-> fpLast.op = op /\ fpLast.ip = ip /\ fpLast.in = in]
  /\ fpAssets' = TrackAsset(fpAssets, ip)
  /\ UNCHANGED <<jobVars, srvVars, libVars>>

FpAnalyzeTCP ==
  \E ip \in FpAddrs, in \in FpTCPInputs :
    FpCall("AnalyzeTCP", ip, in, AnalyzeTCP(fp, ip, in[1], in[2]))

FpAnalyzeHTTP ==
  \E ip \in FpAddrs, payload \in FpHTTPInputs :
    FpCall("AnalyzeHTTP", ip, payload, AnalyzeHTTP(fp, ip, payload))

FpAnalyzeSSH ==
  \E ip \in FpAddrs, payload \in FpSSHInputs :
    FpCall("AnalyzeSSH", ip, payload, AnalyzeSSH(fp, ip, payload))

FpAnalyzeDHCP ==
  \E ip \in FpAddrs, payload \in FpDHCPInputs :
    FpCall("AnalyzeDHCP", ip, payload, AnalyzeDHCP(fp, ip, payload))

\* osFingerprinter.GetResults() and the merge into the assets that follows it.
FpGetResults ==
  /\ fpLast.op # "GetResults"
  /\ fpPrev' = fp
  /\ fp' = GetResults(fp)
  /\ fpLast' = [op |-> "GetResults", ip |-> <<>>, in |-> <<>>, repeat |-> FALSE]
  /\ fpAssets' = ApplyOSResults(fpAssets, GetResults(fp))
  /\ UNCHANGED <<fpCalls, jobVars, srvVars, libVars>>

NextOS == FpAnalyzeTCP \/ FpAnalyzeHTTP \/ FpAnalyzeSSH \/ FpAnalyzeDHCP \/ FpGetResults

----------------------------------------------------------------------------
(* One AnalyzePCAP call, packet by packet *)

MaxPackets == 3

\* Capture timestamps, in nanoseconds: 0 and 1.5 ms.
Timestamps == {0, 1500000}
\* A packet without a transport layer is read at one timestamp only: nothing
\* reads its timestamp.
TimestampsFor(shape) == IF shape.l4 = "none" THEN {0} ELSE Timestamps

Pkt(net, src, dst, l4, sport, dport) ==
  [ts |-> 0, net |-> net, src |-> src, dst |-> dst, hasEth |-> FALSE, mac |-> <<>>,
   l4 |-> l4, sport |-> sport, dport |-> dport,
   syn |-> FALSE, ack |-> FALSE, fin |-> FALSE, rst |-> FALSE,
   window |-> 0, ttl |-> 0, paylen |-> 0, hasApp |-> FALSE, app |-> <<>>]

WithApp(pkt, payload) == [pkt EXCEPT !.hasApp = TRUE, !.app = payload, !.paylen = Len(payload)]
WithEth(pkt, mac) == [pkt EXCEPT !.hasEth = TRUE, !.mac = mac]

\* The packets a capture is made of (timestamps aside).
TcpClientData ==
  WithEth(WithApp([Pkt("ipv4", IP_Client, IP_Server, "tcp", 51000, 443)
                     EXCEPT !.ack = TRUE, !.window = 64240, !.ttl = 128], P_Data), MAC_A)
TcpServerData ==
  WithEth(WithApp([Pkt("ipv4", IP_Server, IP_Client, "tcp", 443, 51000)
                     EXCEPT !.ack = TRUE, !.fin = TRUE, !.window = 29200, !.ttl = 64],
                  P_Hello), MAC_B)
TcpClientSyn ==
  [Pkt("ipv4", IP_Client, IP_Server, "tcp", 51000, 443)
     EXCEPT !.syn = TRUE, !.window = 64240, !.ttl = 128]
TcpClientRst ==
  [Pkt("ipv4", IP_Client, IP_Server, "tcp", 51000, 443)
     EXCEPT !.rst = TRUE, !.window = 0, !.ttl = 128, !.paylen = 2]
TcpSelfHttp ==
  WithApp([Pkt("ipv4", IP_Lan, IP_Lan, "tcp", 80, 80)
             EXCEPT !.ack = TRUE, !.window = 8192, !.ttl = 128], P_HttpWin10)
UdpDhcpRequest == WithApp(Pkt("ipv4", IP_Client, IP_Server, "udp", 68, 67), P_Dhcp)
UdpDhcpReply == WithApp(Pkt("ipv4", IP_Server, IP_Client, "udp", 67, 68), P_Hello)
UdpSelfAnswer == [Pkt("ipv4", IP_Lan, IP_Lan, "udp", 53, 5353) EXCEPT !.paylen = 4]
IcmpEcho == Pkt("ipv4", IP_Client, IP_Server, "icmp4", 0, 0)
IcmpReply == Pkt("ipv4", IP_Server, IP_Client, "icmp4", 0, 0)
ArpFrame == WithEth(Pkt("none", <<>>, <<>>, "none", 0, 0), MAC_A)
Ipv6Bare == WithEth(Pkt("ipv6", IP6_Local, IP6_Public, "none", 0, 0), MAC_B)

PacketShapes ==
  {TcpClientData, TcpServerData, TcpClientSyn, TcpClientRst, TcpSelfHttp,
   UdpDhcpRequest, UdpDhcpReply, UdpSelfAnswer,
   IcmpEcho, IcmpReply, ArpFrame, Ipv6Bare}

\* One iteration of "for packet := range packetSource.Packets()".
ReadPacket ==
  /\ jobPhase = "read"
  /\ Len(seen) < MaxPackets
  /\ \E shape \in PacketShapes : \E ts \in TimestampsFor(shape) :
       LET pkt == [shape EXCEPT !.ts = ts] IN
       /\ job' = HandlePacket(job, pkt)
       /\ seen' = Append(seen, pkt)
  /\ UNCHANGED <<jobPhase, fpVars, srvVars, libVars>>

\* The source is exhausted: "Finalize all trackers" and the merge of the
\* fingerprints into the assets.
EndOfCapture ==
  /\ jobPhase = "read"
  /\ job' = FinalizeJob(job)
  /\ jobPhase' = "done"
  /\ UNCHANGED <<seen, fpVars, srvVars, libVars>>

NextJob == ReadPacket \/ EndOfCapture

----------------------------------------------------------------------------
(* The server: upload handler, job queue, worker pool, database *)

\* analyzer.NewWorkerPool(2)
NumWorkers == 2
Workers == 1 .. NumWorkers

\* make(chan AnalysisJob, 100)
JobQueueCap == 100

\* What an uploaded file holds.  "corrupt" is a file pcap.OpenOffline rejects,
\* "truncated" a capture that opens and is cut off inside its second record,
\* "mixed" one with a TCP, a UDP and an ICMP packet.
Contents == {"tcp", "dhcp", "corrupt"}

CaptureOf(content) ==
  CASE content = "tcp" ->
         <<[TcpClientData EXCEPT !.ts = 1500000]>>
    [] content = "dhcp" -> <<[UdpDhcpRequest EXCEPT !.ts = 0]>>
    [] content = "truncated" -> <<[TcpClientData EXCEPT !.ts = 0]>>
    [] content = "mixed" -> <<TcpClientData, UdpDhcpRequest, IcmpEcho>>
    [] OTHER -> <<>>

\* pcap.OpenOffline(pcapPath) succeeds on a stored capture file.
OpensOffline(files, pcapPath) ==
  pcapPath \in DOMAIN files /\ files[pcapPath] # "corrupt"

\* Reading the file ends in an error instead of the end of the file.
EndsInError(content) == content = "truncated"

\* A channel send completes only while the buffer has room.
CanSendAlways(q) == TRUE
CanSend(q) == Len(q) < JobQueueCap

\* A channel receive removes the job it delivers.
ReceiveKeeps(q) == q
Receive(q) == Tail(q)

\* The select in Worker.Start is evaluated only at the top of the loop, that
\* is when the previous AnalyzePCAP call has returned.
WorkerAlwaysReady(w, workers) == workers[w].pc # "exited"
WorkerReady(w, workers) == workers[w].pc = "idle"

\* The tracking structures of a call are locals of that call.
SharedSlot(w) == 1
StateSlot(w) == w

NoJob == [AnalysisID |-> 0, PcapPath |-> 0]
NoRows == [assets |-> {}, targets |-> {}, tcp |-> {}, udp |-> {}, icmp |-> {}]
IdleWorker ==
  [pc |-> "idle", job |-> NoJob, packets |-> <<>>, readError |-> FALSE,
   pending |-> NoRows]

\* "UPDATE analyses SET status = ?, error_msg = ? ... WHERE id = ?"
UpdateAnalysisStatus(table, analysisID, status, errorMsg) ==
  IF analysisID \in DOMAIN table
  THEN [table EXCEPT ![analysisID].status = status, ![analysisID].error_msg = errorMsg]
  ELSE table

\* "INSERT INTO analyses (user_id, filename, status, created_at)"
CreateAnalysis(table, id, filename) ==
  table @@ (id :> [filename |-> filename, status |-> "pending", error_msg |-> ""])

\* The order of the save loops of AnalyzePCAP.
SaveOrder == <<"assets", "targets", "tcp", "udp", "icmp">>

\* The table a record of each kind is inserted into.
TableOf(kind) ==
  CASE kind = "assets" -> "assets"
    [] kind = "targets" -> "targets"
    [] kind = "tcp" -> "tcp_connections"
    [] OTHER -> "other_connections"

\* The records a finalized call is about to save.
RowsOf(st, analysisID) ==
  [assets |-> AssetRows(st, analysisID), targets |-> TargetRows(st, analysisID),
   tcp |-> TCPRows(st, analysisID), udp |-> UDPRows(st, analysisID),
   icmp |-> ICMPRows(st, analysisID)]

\* The save loop the call is in: the first kind with a record left.
CurrentKind(pending) ==
  LET left == {i \in 1 .. Len(SaveOrder) : pending[SaveOrder[i]] # {}}
  IN IF left = {} THEN "none"
     ELSE SaveOrder[CHOOSE i \in left : \A k \in left : i <= k]

InitServer ==
  /\ requests = 0
  /\ disk = << >>
  /\ senders = {}
  /\ analyses = << >>
  /\ nextID = 1
  /\ db = [assets |-> {}, targets |-> {}, tcp_connections |-> {}, other_connections |-> {}]
  /\ queue = <<>>
  /\ wk = [w \in Workers |-> IdleWorker]
  /\ slots = [s \in Workers |-> NewJobState]
  /\ proc = "running"
  /\ quitPending = [w \in Workers |-> FALSE]
  /\ runs = << >>
  /\ writes = << >>
  /\ result = << >>
  /\ calling = {}
  /\ dropped = {}
  /\ faults = 0
  /\ waiting = <<>>

----------------------------------------------------------------------------
(* Upload handler *)

\* An upload request: is there a "file" form field, the extension of its name,
\* do SaveUploadedFile and CreateAnalysis succeed, and what the file holds.
UploadRequest(hasFile, ext, saveOK, createOK, content) ==
  [hasFile |-> hasFile, ext |-> ext, saveOK |-> saveOK, createOK |-> createOK,
   content |-> content]

UploadRequests ==
  {UploadRequest(TRUE, ext, TRUE, TRUE, c) : ext \in {".pcap", ".pcapng"}, c \in Contents}
  \cup {UploadRequest(FALSE, "", TRUE, TRUE, "tcp"),
        UploadRequest(TRUE, ".txt", TRUE, TRUE, "tcp"),
        UploadRequest(TRUE, ".pcap", FALSE, TRUE, "tcp"),
        UploadRequest(TRUE, ".pcap", TRUE, FALSE, "tcp")}

\* c.SaveUploadedFile(file, uploadPath): the file is created or overwritten.
SaveUploadedFile(files, uploadPath, content) ==
  [f \in DOMAIN files \cup {uploadPath} |->
     IF f = uploadPath THEN content ELSE files[f]]

\* An os.Remove that removes nothing.
OsRemoveKeeps(files, uploadPath) == files

\* os.Remove(uploadPath)
OsRemove(files, uploadPath) ==
  [f \in DOMAIN files \ {uploadPath} |-> files[f]]

\* UploadPCAP up to the send on JobQueue, as a function of the request, the
\* upload directory, table analyses, the next id and the upload path: the
\* status of the response, the directory and the table it leaves, and the
\* jobs it goes on to send.
UploadOutcome(req, files, table, id, uploadPath) ==
  IF ~req.hasFile
  THEN [code |-> 400, files |-> files, table |-> table, jobs |-> {}]
  ELSE IF req.ext # ".pcap" /\ req.ext # ".pcapng"
  THEN [code |-> 400, files |-> files, table |-> table, jobs |-> {}]
  ELSE IF ~req.saveOK
  THEN [code |-> 500, files |-> files, table |-> table, jobs |-> {}]
  ELSE LET saved == SaveUploadedFile(files, uploadPath, req.content) IN
       IF ~req.createOK
       THEN [code |-> 500, files |-> OsRemove(saved, uploadPath), table |-> table,
             jobs |-> {}]
       ELSE [code |-> 200, files |-> saved,
             table |-> CreateAnalysis(table, id, uploadPath),
             jobs |-> {[AnalysisID |-> id, PcapPath |-> uploadPath]}]

\* UploadPCAP up to the send on JobQueue.  The upload path is unique per
\* request; a file saved before a failing CreateAnalysis is removed again.
UploadPCAP(req, limit) ==
  /\ proc # "exited"
  /\ requests < limit
  /\ requests' = requests + 1
  /\ LET out == UploadOutcome(req, disk, analyses, nextID, requests + 1) IN
     /\ disk' = out.files
     /\ analyses' = out.table
     /\ senders' = senders \cup out.jobs
     /\ IF out.code # 200
        THEN UNCHANGED <<nextID, runs, writes, result>>
        ELSE /\ nextID' = nextID + 1
             /\ runs' = runs @@ (nextID :> 0)
             /\ writes' = writes @@ (nextID :> <<"pending">>)
             /\ result' = result @@ (nextID :> "none")
  /\ UNCHANGED <<db, poolVars, calling, dropped, faults, waiting, fpVars, jobVars, libVars>>

\* "analyzer.JobQueue <- job" and the response that follows it.
Enqueue(j) ==
  /\ proc # "exited"
  /\ j \in senders
  /\ CanSend(queue)
  /\ queue' = Append(queue, j)
  /\ senders' = senders \ {j}
  /\ waiting' = Append(waiting, j.AnalysisID)
  /\ UNCHANGED <<requests, disk, dbVars, wk, slots, proc, quitPending, runs,
                 writes, result, calling, dropped, faults, fpVars, jobVars, libVars>>

----------------------------------------------------------------------------
(* Worker.Start and AnalyzePCAP *)

\* The sequence without the element x.
Without(seq, x) == SelectSeq(seq, LAMBDA e : e # x)

\* A receive that hands out the job sent last.
DequeueNewest(w) ==
  /\ proc # "exited"
  /\ WorkerReady(w, wk)
  /\ queue # <<>>
  /\ LET j == queue[Len(queue)] IN
     /\ wk' = [wk EXCEPT ![w] = [IdleWorker EXCEPT !.pc = "start", !.job = j]]
     /\ runs' = [runs EXCEPT ![j.AnalysisID] = @ + 1]
     /\ calling' = calling \cup {<<w, j.AnalysisID>>}
     /\ waiting' = Without(waiting, j.AnalysisID)
  /\ queue' = SubSeq(queue, 1, Len(queue) - 1)
  /\ UNCHANGED <<httpVars, dbVars, slots, proc, quitPending, writes, result,
                 dropped, faults, fpVars, jobVars, libVars>>

\* "case job := <-w.JobQueue": the worker enters AnalyzePCAP for the job.
Dequeue(w) ==
  /\ proc # "exited"
  /\ WorkerReady(w, wk)
  /\ queue # <<>>
  /\ LET j == Head(queue) IN
     /\ wk' = [wk EXCEPT ![w] = [IdleWorker EXCEPT !.pc = "start", !.job = j]]
     /\ runs' = [runs EXCEPT ![j.AnalysisID] = @ + 1]
     /\ calling' = calling \cup {<<w, j.AnalysisID>>}
     /\ waiting' = Without(waiting, j.AnalysisID)
  /\ queue' = Receive(queue)
  /\ UNCHANGED <<httpVars, dbVars, slots, proc, quitPending, writes, result,
                 dropped, faults, fpVars, jobVars, libVars>>

\* database.UpdateAnalysisStatus as called from AnalyzePCAP.
WriteStatus(analysisID, status, errorMsg, ok) ==
  /\ analyses' = IF ok THEN UpdateAnalysisStatus(analyses, analysisID, status, errorMsg)
                 ELSE analyses
  /\ writes' = IF ok THEN [writes EXCEPT ![analysisID] = Append(@, status)] ELSE writes
  /\ faults' = IF ok THEN faults ELSE faults + 1

\* A worker that leaves its loop when AnalyzePCAP returns an error.
ReturnStopsOnError(w, err) ==
  /\ wk' = [wk EXCEPT ![w] = IF err = "nil" THEN IdleWorker
                             ELSE [IdleWorker EXCEPT !.pc = "exited"]]
  /\ slots' = [slots EXCEPT ![StateSlot(w)] = NewJobState]
  /\ result' = [result EXCEPT ![wk[w].job.AnalysisID] = err]
  /\ calling' = calling \ {<<w, wk[w].job.AnalysisID>>}

\* AnalyzePCAP returns err to Worker.Start, which logs it and loops.
Return(w, err) ==
  /\ wk' = [wk EXCEPT ![w] = IdleWorker]
  /\ slots' = [slots EXCEPT ![StateSlot(w)] = NewJobState]
  /\ result' = [result EXCEPT ![wk[w].job.AnalysisID] = err]
  /\ calling' = calling \ {<<w, wk[w].job.AnalysisID>>}

\* "Update status to processing"
MarkProcessing(w, ok) ==
  /\ proc # "exited"
  /\ wk[w].pc = "start"
  /\ WriteStatus(wk[w].job.AnalysisID, "processing", "", ok)
  /\ IF ok
     THEN /\ wk' = [wk EXCEPT ![w].pc = "open"]
          /\ UNCHANGED <<slots, result, calling>>
     ELSE Return(w, "failed to update status")
  /\ UNCHANGED <<httpVars, nextID, db, queue, proc, quitPending, runs, dropped,
                 waiting, fpVars, jobVars, libVars>>

\* AnalyzePCAP without the return that follows the 'failed' write.
OpenSourceNoReturn(w, ok) ==
  /\ proc # "exited"
  /\ wk[w].pc = "open"
  /\ IF OpensOffline(disk, wk[w].job.PcapPath)
     THEN /\ ok
          /\ wk' = [wk EXCEPT ![w].pc = "read",
                              ![w].packets = CaptureOf(disk[wk[w].job.PcapPath]),
                              ![w].readError = EndsInError(disk[wk[w].job.PcapPath])]
          /\ UNCHANGED <<analyses, writes, faults>>
     ELSE /\ WriteStatus(wk[w].job.AnalysisID, "failed", "open error", ok)
          /\ wk' = [wk EXCEPT ![w].pc = "read"]
  /\ slots' = [slots EXCEPT ![StateSlot(w)] = NewJobState]
  /\ UNCHANGED <<httpVars, nextID, db, queue, proc, quitPending, runs, result,
                 calling, dropped, waiting, fpVars, jobVars, libVars>>

\* AnalyzePCAP without the status write on a failed open.
OpenSourceSilent(w, ok) ==
  /\ proc # "exited"
  /\ wk[w].pc = "open"
  /\ ok
  /\ IF OpensOffline(disk, wk[w].job.PcapPath)
     THEN /\ wk' = [wk EXCEPT ![w].pc = "read",
                              ![w].packets = CaptureOf(disk[wk[w].job.PcapPath]),
                              ![w].readError = EndsInError(disk[wk[w].job.PcapPath])]
          /\ slots' = [slots EXCEPT ![StateSlot(w)] = NewJobState]
          /\ UNCHANGED <<result, calling>>
     ELSE Return(w, "failed to open pcap file")
  /\ UNCHANGED <<httpVars, dbVars, queue, proc, quitPending, runs, writes, dropped,
                 faults, waiting, fpVars, jobVars, libVars>>

\* "Open PCAP file" and "Initialize tracking structures"; on failure the
\* status write to 'failed', its error ignored, and the return.
OpenSource(w, ok) ==
  /\ proc # "exited"
  /\ wk[w].pc = "open"
  /\ IF OpensOffline(disk, wk[w].job.PcapPath)
     THEN /\ ok
          /\ wk' = [wk EXCEPT ![w].pc = "read",
                              ![w].packets = CaptureOf(disk[wk[w].job.PcapPath]),
                              ![w].readError = EndsInError(disk[wk[w].job.PcapPath])]
          /\ slots' = [slots EXCEPT ![StateSlot(w)] = NewJobState]
          /\ UNCHANGED <<analyses, writes, faults, result, calling>>
     ELSE /\ WriteStatus(wk[w].job.AnalysisID, "failed", "open error", ok)
          /\ Return(w, "failed to open pcap file")
  /\ UNCHANGED <<httpVars, nextID, db, queue, proc, quitPending, runs, dropped,
                 waiting, fpVars, jobVars, libVars>>

\* One iteration of the packet loop.
ReadNext(w) ==
  /\ proc # "exited"
  /\ wk[w].pc = "read"
  /\ wk[w].packets # <<>>
  /\ slots' = [slots EXCEPT ![StateSlot(w)] = HandlePacket(@, Head(wk[w].packets))]
  /\ wk' = [wk EXCEPT ![w].packets = Tail(@)]
  /\ UNCHANGED <<httpVars, dbVars, queue, proc, quitPending, histVars, fpVars, jobVars, libVars>>

\* The reader goroutine of packetSource.Packets() gets an error from the
\* handle.  AnalyzePCAP sees none of it: depending on the error and on the
\* gopacket release the reader closes the packet channel, as it does at the end
\* of the file, or sleeps and retries for ever, and the range loop waits.
ReadError(w, closes) ==
  /\ proc # "exited"
  /\ wk[w].pc = "read"
  /\ wk[w].packets = <<>>
  /\ wk[w].readError
  /\ wk' = IF closes THEN [wk EXCEPT ![w].readError = FALSE]
           ELSE [wk EXCEPT ![w].pc = "stalled"]
  /\ UNCHANGED <<httpVars, dbVars, queue, slots, proc, quitPending, histVars,
                 fpVars, jobVars, libVars>>

\* The packet channel is closed: finalization and the merge of the fingerprints.
EndOfSource(w) ==
  /\ proc # "exited"
  /\ wk[w].pc = "read"
  /\ wk[w].packets = <<>>
  /\ ~wk[w].readError
  /\ LET st == FinalizeJob(slots[StateSlot(w)]) IN
     /\ slots' = [slots EXCEPT ![StateSlot(w)] = st]
     /\ wk' = [wk EXCEPT ![w].pc = "save",
                         ![w].pending = RowsOf(st, wk[w].job.AnalysisID)]
  /\ UNCHANGED <<httpVars, dbVars, queue, proc, quitPending, histVars, fpVars, jobVars, libVars>>

\* A save loop that gives up at the first failing save.
SaveRecordAborts(w, ok) ==
  /\ proc # "exited"
  /\ wk[w].pc = "save"
  /\ LET kind == CurrentKind(wk[w].pending) IN
     /\ kind # "none"
     /\ \E row \in wk[w].pending[kind] :
          /\ db' = IF ok THEN [db EXCEPT ![TableOf(kind)] = @ \cup {row}] ELSE db
          /\ dropped' = IF ok THEN dropped ELSE dropped \cup {row}
          /\ wk' = [wk EXCEPT ![w].pending = IF ok THEN [@ EXCEPT ![kind] = @ \ {row}]
                                             ELSE NoRows]
  /\ faults' = IF ok THEN faults ELSE faults + 1
  /\ UNCHANGED <<httpVars, analyses, nextID, queue, slots, proc, quitPending,
                 runs, writes, result, calling, waiting, fpVars, jobVars, libVars>>

\* One iteration of a save loop: a failing save is logged and skipped.
SaveRecord(w, ok) ==
  /\ proc # "exited"
  /\ wk[w].pc = "save"
  /\ LET kind == CurrentKind(wk[w].pending) IN
     /\ kind # "none"
     /\ \E row \in wk[w].pending[kind] :
          /\ db' = IF ok THEN [db EXCEPT ![TableOf(kind)] = @ \cup {row}] ELSE db
          /\ dropped' = IF ok THEN dropped ELSE dropped \cup {row}
          /\ wk' = [wk EXCEPT ![w].pending[kind] = @ \ {row}]
  /\ faults' = IF ok THEN faults ELSE faults + 1
  /\ UNCHANGED <<httpVars, analyses, nextID, queue, slots, proc, quitPending,
                 runs, writes, result, calling, waiting, fpVars, jobVars, libVars>>

\* AnalyzePCAP returning nil whatever the final status write answered.
MarkCompletedSwallows(w, ok) ==
  /\ proc # "exited"
  /\ wk[w].pc = "save"
  /\ CurrentKind(wk[w].pending) = "none"
  /\ WriteStatus(wk[w].job.AnalysisID, "completed", "", ok)
  /\ Return(w, "nil")
  /\ UNCHANGED <<httpVars, nextID, db, queue, proc, quitPending, runs, dropped,
                 waiting, fpVars, jobVars, libVars>>

\* "Update status to completed" and the return.
MarkCompleted(w, ok) ==
  /\ proc # "exited"
  /\ wk[w].pc = "save"
  /\ CurrentKind(wk[w].pending) = "none"
  /\ WriteStatus(wk[w].job.AnalysisID, "completed", "", ok)
  /\ Return(w, IF ok THEN "nil" ELSE "failed to update final status")
  /\ UNCHANGED <<httpVars, nextID, db, queue, proc, quitPending, runs, dropped,
                 waiting, fpVars, jobVars, libVars>>

----------------------------------------------------------------------------
(* Shutdown *)

\* The signal handler of main calls WorkerPool.Stop: one goroutine per worker
\* starts sending on the worker's quit channel, and Stop waits for the workers.
StopPool ==
  /\ proc = "running"
  /\ proc' = "stopping"
  /\ quitPending' = [w \in Workers |-> TRUE]
  /\ UNCHANGED <<httpVars, dbVars, queue, wk, slots, histVars, fpVars, jobVars, libVars>>

\* "case <-w.quit": the worker returns from its loop.
WorkerQuit(w) ==
  /\ proc # "exited"
  /\ wk[w].pc = "idle"
  /\ quitPending[w]
  /\ wk' = [wk EXCEPT ![w].pc = "exited"]
  /\ quitPending' = [quitPending EXCEPT ![w] = FALSE]
  /\ UNCHANGED <<httpVars, dbVars, queue, slots, proc, histVars, fpVars, jobVars, libVars>>

\* A shutdown that marks the jobs left in the queue as failed.
ExitProcessFailsQueued ==
  /\ proc = "stopping"
  /\ \A w \in Workers : wk[w].pc = "exited"
  /\ proc' = "exited"
  /\ analyses' = [id \in DOMAIN analyses |->
                    IF \E i \in 1..Len(queue) : queue[i].AnalysisID = id
                    THEN [analyses[id] EXCEPT !.status = "failed"]
                    ELSE analyses[id]]
  /\ UNCHANGED <<httpVars, nextID, db, queue, wk, slots, quitPending, histVars,
                 fpVars, jobVars, libVars>>

\* wg.Wait() returns, then database.Close() and os.Exit(0).
ExitProcess ==
  /\ proc = "stopping"
  /\ \A w \in Workers : wk[w].pc = "exited"
  /\ proc' = "exited"
  /\ UNCHANGED <<httpVars, dbVars, queue, wk, slots, quitPending, histVars,
                 fpVars, jobVars, libVars>>

MaxUploads == 2
MaxFaults == 1

\* The outcomes of a database statement: it may fail.
SinkOutcomes == IF faults < MaxFaults THEN BOOLEAN ELSE {TRUE}

Next ==
  \/ \E req \in UploadRequests : UploadPCAP(req, MaxUploads)
  \/ \E j \in senders : Enqueue(j)
  \/ \E w \in Workers : Dequeue(w)
  \/ \E w \in Workers, ok \in SinkOutcomes : MarkProcessing(w, ok)
  \/ \E w \in Workers, ok \in SinkOutcomes : OpenSource(w, ok)
  \/ \E w \in Workers : ReadNext(w)
  \/ \E w \in Workers : EndOfSource(w)
  \/ \E w \in Workers, ok \in SinkOutcomes : SaveRecord(w, ok)
  \/ \E w \in Workers, ok \in SinkOutcomes : MarkCompleted(w, ok)
  \/ StopPool
  \/ \E w \in Workers : WorkerQuit(w)
  \/ ExitProcess

\* The states in which the job queue fills up: uploads arrive one at a time
\* (two at a time once the queue is nearly full), the workers are slow, they are
\* scheduled only when a backlog of JobQueueCap - 1 jobs has built up, the
\* database is healthy and the pool is not being stopped.
MaxBurst == 102
BurstRequest == UploadRequest(TRUE, ".pcap", TRUE, TRUE, "dhcp")
BurstSenders == IF Len(queue) >= JobQueueCap - 1 THEN 2 ELSE 1

NextQ ==
  \/ Cardinality(senders) < BurstSenders /\ UploadPCAP(BurstRequest, MaxBurst)
  \/ \E j \in senders : Enqueue(j)
  \/ \E w \in Workers : Len(queue) >= JobQueueCap - 1 /\ Dequeue(w)
  \/ \E w \in Workers : MarkProcessing(w, TRUE)
  \/ \E w \in Workers : OpenSource(w, TRUE)
  \/ \E w \in Workers : ReadNext(w)
  \/ \E w \in Workers : EndOfSource(w)
  \/ \E w \in Workers : SaveRecord(w, TRUE)
  \/ \E w \in Workers : MarkCompleted(w, TRUE)

\* Uploads of captures that are cut off, next to sound ones, while the pool
\* is not being stopped.
ReadErrorRequests ==
  {UploadRequest(TRUE, ".pcap", TRUE, TRUE, c) : c \in {"truncated", "dhcp"}}

NextR ==
  \/ \E req \in ReadErrorRequests : UploadPCAP(req, MaxUploads)
  \/ \E j \in senders : Enqueue(j)
  \/ \E w \in Workers : Dequeue(w)
  \/ \E w \in Workers, ok \in SinkOutcomes : MarkProcessing(w, ok)
  \/ \E w \in Workers, ok \in SinkOutcomes : OpenSource(w, ok)
  \/ \E w \in Workers : ReadNext(w)
  \/ \E w \in Workers, closes \in BOOLEAN : ReadError(w, closes)
  \/ \E w \in Workers : EndOfSource(w)
  \/ \E w \in Workers, ok \in SinkOutcomes : SaveRecord(w, ok)
  \/ \E w \in Workers, ok \in SinkOutcomes : MarkCompleted(w, ok)

\* Uploads of captures with records of every kind, analysed while any of the
\* record saves may fail and the status writes succeed.
SaveFaultRequests == {UploadRequest(TRUE, ".pcap", TRUE, TRUE, "mixed")}

MaxSaveJobs == 1

NextS ==
  \/ \E req \in SaveFaultRequests : UploadPCAP(req, MaxSaveJobs)
  \/ \E j \in senders : Enqueue(j)
  \/ \E w \in Workers : Dequeue(w)
  \/ \E w \in Workers : MarkProcessing(w, TRUE)
  \/ \E w \in Workers : OpenSource(w, TRUE)
  \/ \E w \in Workers : ReadNext(w)
  \/ \E w \in Workers : EndOfSource(w)
  \/ \E w \in Workers, ok \in BOOLEAN : SaveRecord(w, ok)
  \/ \E w \in Workers : MarkCompleted(w, TRUE)

\* A backlog of unreadable and sound captures, worked off by the pool until
\* it is stopped, with a healthy database.
BacklogRequests ==
  {UploadRequest(TRUE, ".pcap", TRUE, TRUE, c) : c \in {"corrupt", "dhcp"}}

MaxBacklog == 3

NextW ==
  \/ \E req \in BacklogRequests : UploadPCAP(req, MaxBacklog)
  \/ \E j \in senders : Enqueue(j)
  \/ \E w \in Workers : Dequeue(w)
  \/ \E w \in Workers : MarkProcessing(w, TRUE)
  \/ \E w \in Workers : OpenSource(w, TRUE)
  \/ \E w \in Workers : ReadNext(w)
  \/ \E w \in Workers : EndOfSource(w)
  \/ \E w \in Workers : SaveRecord(w, TRUE)
  \/ \E w \in Workers : MarkCompleted(w, TRUE)
  \/ StopPool
  \/ \E w \in Workers : WorkerQuit(w)
  \/ ExitProcess

\* The pool running and never stopped: uploads of sound and unreadable
\* captures, any database statement may fail.
LiveRequests ==
  {UploadRequest(TRUE, ".pcap", TRUE, TRUE, c) : c \in {"dhcp", "corrupt"}}

MaxLiveJobs == 2

\* A step of worker w's goroutine.
WorkerStep(w) ==
  \/ Dequeue(w)
  \/ \E ok \in SinkOutcomes : MarkProcessing(w, ok)
  \/ \E ok \in SinkOutcomes : OpenSource(w, ok)
  \/ ReadNext(w)
  \/ EndOfSource(w)
  \/ \E ok \in SinkOutcomes : SaveRecord(w, ok)
  \/ \E ok \in SinkOutcomes : MarkCompleted(w, ok)

NextL ==
  \/ \E req \in LiveRequests : UploadPCAP(req, MaxLiveJobs)
  \/ \E j \in senders : Enqueue(j)
  \/ \E w \in Workers : WorkerStep(w)

----------------------------------------------------------------------------
(* identifyService, lookup by lookup *)

NoPort == -1

InitSvc ==
  /\ lookupPort = NoPort
  /\ lookupService = ""

MaxPort == 7000

\* The ports looked up: a TCP or UDP port is 16 bits wide.  Every port up to
\* MaxPort, which is above the last table entry, and two ports far above it.
Ports == (0..MaxPort) \cup {9999, 65535}

\* One call identifyService(p).  The function keeps nothing between calls (its
\* table is a local of the call), so every call starts from the initial state.
Lookup ==
  \E p \in Ports :
    /\ lookupPort = NoPort
    /\ lookupPort' = p
    /\ lookupService' = identifyService(p)
    /\ UNCHANGED <<fpVars, jobVars, srvVars, apiVars, hVars, stopVars>>

NextSvc == Lookup

----------------------------------------------------------------------------
(* The analysis handlers (handlers/analysis.go), request by request *)

\* The ids the session middleware puts in the context: never 0.
Users == {1, 2}

\* Stored file names, "<unix seconds>_<uploaded name>": two uploads of one
\* name within a second get the same one.
FileNames == {"1700000000_a.pcap", "1700000000_b.pcap"}

MaxAnalyses == 2

\* strconv.Atoi: an optional sign and at least one digit, nothing else.
StrconvAtoi(str) ==
  LET signed == str # <<>> /\ str[1] \in {43, 45}
      digits == IF signed THEN Tail(str) ELSE str
      ok == digits # <<>> /\ \A i \in 1..Len(digits) : digits[i] \in 48..57
  IN [ok |-> ok,
      n |-> IF ~ok THEN 0
            ELSE IF str[1] = 45 THEN 0 - Atoi(digits) ELSE Atoi(digits)]

\* The values of the :id path parameter tried: every id in use, the next one
\* and a word.
IdParams == {Itoa(n) : n \in 1..(MaxAnalyses + 1)} \cup {<<120>>}

\* Which database call of a handler fails, if any.
ApiFaults == {"none", "read", "second"}

NoResponse ==
  [op |-> "", user |-> 0, id |-> 0, found |-> FALSE,
   code |-> 0, msg |-> "", about |-> 0]

InitApi ==
  /\ apiAnalyses = << >>
  /\ apiNextID = 1
  /\ apiUploads = {}
  /\ owners = << >>
  /\ response = NoResponse

\* What UploadPCAP leaves behind for user u: the stored file and the row of
\* database.CreateAnalysis(userID, filename).
ApiCreate(u, f) ==
  /\ apiNextID <= MaxAnalyses
  /\ apiUploads' = apiUploads \cup {f}
  /\ apiAnalyses' = apiAnalyses @@
       (apiNextID :> [ID |-> apiNextID, UserID |-> u, Filename |-> f, Status |-> "pending"])
  /\ owners' = owners @@ (apiNextID :> u)
  /\ apiNextID' = apiNextID + 1
  /\ UNCHANGED <<response, fpVars, jobVars, srvVars, svcVars, hVars, stopVars>>

\* A worker's UpdateAnalysisStatus(id, "completed", "").
ApiComplete(id) ==
  /\ id \in DOMAIN apiAnalyses
  /\ apiAnalyses[id].Status = "pending"
  /\ apiAnalyses' = [apiAnalyses EXCEPT ![id].Status = "completed"]
  /\ UNCHANGED <<apiNextID, apiUploads, owners, response, fpVars, jobVars, srvVars, svcVars, hVars, stopVars>>

\* An ownership test that lets everyone through.
OwnsAnything(analysis, userID) == TRUE

\* "Check if user owns this analysis": analysis.UserID != userID.(int) refuses.
Owns(analysis, userID) == analysis.UserID = userID

\* The part the two handlers share: the id is parsed, the row read, its owner
\* compared.  Gives the refusal, or code 0 to go on.
Admit(op, u, param, fault) ==
  LET a == StrconvAtoi(param)
      r == [response EXCEPT !.op = op, !.user = u, !.id = a.n,
                            !.found = FALSE, !.about = 0]
  IN IF ~a.ok THEN [r EXCEPT !.code = 400, !.msg = "Invalid analysis ID"]
     ELSE IF fault = "read"
       THEN [r EXCEPT !.code = 500, !.msg = "Failed to retrieve analysis"]
     ELSE IF a.n \notin DOMAIN apiAnalyses
       THEN [r EXCEPT !.code = 404, !.msg = "Analysis not found"]
     ELSE IF ~Owns(apiAnalyses[a.n], u)
       THEN [r EXCEPT !.found = TRUE, !.code = 403, !.msg = "Access denied"]
     ELSE [r EXCEPT !.found = TRUE, !.code = 0, !.msg = ""]

\* handlers.GetAnalysis for user u; fault says whether database.GetAnalysis
\* ("read") or database.GetAnalysisResults ("second") fails.
GetAnalysisHandler(u, param, fault) ==
  LET r == Admit("GetAnalysis", u, param, fault) IN
  /\ response' =
       IF r.code # 0 THEN r
       ELSE IF apiAnalyses[r.id].Status # "completed"
         THEN [r EXCEPT !.code = 200, !.msg = "analysis", !.about = r.id]
       ELSE IF fault = "second"
         THEN [r EXCEPT !.code = 500, !.msg = "Failed to retrieve results"]
       ELSE [r EXCEPT !.code = 200, !.msg = "results", !.about = r.id]
  /\ UNCHANGED <<apiAnalyses, apiNextID, apiUploads, owners, fpVars, jobVars, srvVars, svcVars, hVars, stopVars>>

\* handlers.DeleteAnalysis for user u; fault says whether database.GetAnalysis
\* ("read") or database.DeleteAnalysis ("second") fails.
DeleteAnalysisHandler(u, param, fault) ==
  LET r == Admit("DeleteAnalysis", u, param, fault) IN
  /\ IF r.code # 0
       THEN response' = r /\ UNCHANGED <<apiAnalyses, apiUploads>>
     ELSE IF fault = "second"
       THEN /\ response' = [r EXCEPT !.code = 500, !.msg = "Failed to delete analysis"]
            /\ UNCHANGED <<apiAnalyses, apiUploads>>
     ELSE /\ apiAnalyses' = [i \in DOMAIN apiAnalyses \ {r.id} |-> apiAnalyses[i]]
          /\ apiUploads' = apiUploads \ {apiAnalyses[r.id].Filename}
          /\ response' = [r EXCEPT !.code = 200, !.msg = "Analysis deleted successfully"]
  /\ UNCHANGED <<apiNextID, owners, fpVars, jobVars, srvVars, svcVars, hVars, stopVars>>

NextApi ==
  \/ \E u \in Users, f \in FileNames : ApiCreate(u, f)
  \/ \E id \in DOMAIN apiAnalyses : ApiComplete(id)
  \/ \E u \in Users, param \in IdParams, fault \in ApiFaults :
       GetAnalysisHandler(u, param, fault)
  \/ \E u \in Users, param \in IdParams, fault \in ApiFaults :
       DeleteAnalysisHandler(u, param, fault)

----------------------------------------------------------------------------
(* The analysis handlers and the workers, side by side *)

\* sql.Open("sqlite3", dbPath) with a path and no _foreign_keys parameter:
\* SQLite does not enforce foreign keys on the connection, so ON DELETE
\* CASCADE removes nothing and an INSERT is not checked against table analyses.
ForeignKeys == FALSE

NoAnswer == [kind |-> "none", id |-> 0, status |-> "", rows |-> {}]
IdleViewer == [pc |-> "idle", id |-> 0]

InitH ==
  /\ viewer = IdleViewer
  /\ shown = NoAnswer
  /\ deleted = {}

\* "SELECT ... WHERE analysis_id = ?" over the four result tables.
RowsFor(tables, analysisID) ==
  {r \in tables.assets \cup tables.targets \cup tables.tcp_connections
          \cup tables.other_connections : r.AnalysisID = analysisID}

\* A GetAnalysis that fetches the results whatever the status is.
GetAnalysisRowAnyStatus(id) ==
  /\ proc # "exited"
  /\ viewer.pc = "idle"
  /\ IF id \notin DOMAIN analyses
     THEN /\ shown' = [kind |-> "notfound", id |-> id, status |-> "", rows |-> {}]
          /\ UNCHANGED viewer
     ELSE /\ viewer' = [pc |-> "results", id |-> id]
          /\ UNCHANGED shown
  /\ UNCHANGED <<deleted, srvVars, fpVars, jobVars, svcVars, apiVars, stopVars>>

\* handlers.GetAnalysis called by the owner with a well-formed id, up to the
\* test of the status: 404, or the analysis alone, or on to the results.
GetAnalysisRow(id) ==
  /\ proc # "exited"
  /\ viewer.pc = "idle"
  /\ IF id \notin DOMAIN analyses
     THEN /\ shown' = [kind |-> "notfound", id |-> id, status |-> "", rows |-> {}]
          /\ UNCHANGED viewer
     ELSE IF analyses[id].status # "completed"
     THEN /\ shown' = [kind |-> "analysis", id |-> id, status |-> analyses[id].status,
                       rows |-> {}]
          /\ UNCHANGED viewer
     ELSE /\ viewer' = [pc |-> "results", id |-> id]
          /\ UNCHANGED shown
  /\ UNCHANGED <<deleted, srvVars, fpVars, jobVars, svcVars, apiVars, stopVars>>

\* database.GetAnalysisResults and the response: the row is read again, then
\* the four result tables.
GetAnalysisResults ==
  /\ proc # "exited"
  /\ viewer.pc = "results"
  /\ shown' = IF viewer.id \notin DOMAIN analyses
              THEN [kind |-> "error", id |-> viewer.id, status |-> "", rows |-> {}]
              ELSE [kind |-> "results", id |-> viewer.id,
                    status |-> analyses[viewer.id].status,
                    rows |-> RowsFor(db, viewer.id)]
  /\ viewer' = IdleViewer
  /\ UNCHANGED <<deleted, srvVars, fpVars, jobVars, svcVars, apiVars, stopVars>>

\* handlers.DeleteAnalysis called by the owner of an analysis that exists:
\* "DELETE FROM analyses WHERE id = ?", then os.Remove of the upload.
DeleteAnalysisRequest(id) ==
  /\ proc # "exited"
  /\ id \in DOMAIN analyses
  /\ analyses' = [i \in DOMAIN analyses \ {id} |-> analyses[i]]
  /\ db' = IF ForeignKeys
           THEN [t \in DOMAIN db |-> {r \in db[t] : r.AnalysisID # id}]
           ELSE db
  /\ disk' = [f \in DOMAIN disk \ {analyses[id].filename} |-> disk[f]]
  /\ deleted' = deleted \cup {id}
  /\ UNCHANGED <<requests, senders, nextID, poolVars, histVars, viewer, shown,
                 fpVars, jobVars, svcVars, apiVars, stopVars>>

\* Uploads of sound captures, read and deleted by their owner while the
\* workers analyse them; a record save may fail.
HandlerRequests == {UploadRequest(TRUE, ".pcap", TRUE, TRUE, "tcp")}

MaxHandlerJobs == 1

NextH ==
  \/ \E req \in HandlerRequests : UploadPCAP(req, MaxHandlerJobs)
  \/ \E j \in senders : Enqueue(j)
  \/ \E w \in Workers : Dequeue(w)
  \/ \E w \in Workers : MarkProcessing(w, TRUE)
  \/ \E w \in Workers : OpenSource(w, TRUE)
  \/ \E w \in Workers : ReadNext(w)
  \/ \E w \in Workers : EndOfSource(w)
  \/ \E w \in Workers, ok \in SinkOutcomes : SaveRecord(w, ok)
  \/ \E w \in Workers : MarkCompleted(w, TRUE)
  \/ \E id \in DOMAIN runs : GetAnalysisRow(id)
  \/ GetAnalysisResults
  \/ \E id \in DOMAIN runs : DeleteAnalysisRequest(id)

----------------------------------------------------------------------------
(* The worker pool alone: Worker.Start, Worker.Stop, WorkerPool.Stop *)

InitPool ==
  /\ poolJobs = 0
  /\ loopAt = [w \in Workers |-> "select"]
  /\ quitSend = [w \in Workers |-> "none"]
  /\ stopCall = "none"

\* What no action of the pool changes.
poolFrame == <<fpVars, jobVars, srvVars, svcVars, apiVars, hVars>>

\* "analyzer.JobQueue <- job" in an upload handler: there is always one more
\* upload.  The process runs until WorkerPool.Stop has returned.
PoolSend ==
  /\ stopCall # "returned"
  /\ poolJobs < JobQueueCap
  /\ poolJobs' = poolJobs + 1
  /\ UNCHANGED <<loopAt, quitSend, stopCall, poolFrame>>

\* "case job := <-w.JobQueue"
PoolReceive(w) ==
  /\ stopCall # "returned"
  /\ loopAt[w] = "select"
  /\ poolJobs > 0
  /\ poolJobs' = poolJobs - 1
  /\ loopAt' = [loopAt EXCEPT ![w] = "analyze"]
  /\ UNCHANGED <<quitSend, stopCall, poolFrame>>

\* AnalyzePCAP returns, with or without an error, and the loop goes round.
PoolReturn(w) ==
  /\ stopCall # "returned"
  /\ loopAt[w] = "analyze"
  /\ loopAt' = [loopAt EXCEPT ![w] = "select"]
  /\ UNCHANGED <<poolJobs, quitSend, stopCall, poolFrame>>

\* WorkerPool.Stop up to wg.Wait(): Worker.Stop starts, for every worker, a
\* goroutine that sends on the worker's unbuffered quit channel.
PoolStop ==
  /\ stopCall = "none"
  /\ stopCall' = "waiting"
  /\ quitSend' = [w \in Workers |-> "blocked"]
  /\ UNCHANGED <<poolJobs, loopAt, poolFrame>>

\* A select that takes the quit case only when JobQueue is empty.
PoolQuitAfterJobs(w) ==
  /\ loopAt[w] = "select"
  /\ quitSend[w] = "blocked"
  /\ poolJobs = 0
  /\ loopAt' = [loopAt EXCEPT ![w] = "returned"]
  /\ quitSend' = [quitSend EXCEPT ![w] = "done"]
  /\ UNCHANGED <<poolJobs, stopCall, poolFrame>>

\* "case <-w.quit": the worker returns and its deferred wg.Done() runs.
PoolQuit(w) ==
  /\ loopAt[w] = "select"
  /\ quitSend[w] = "blocked"
  /\ loopAt' = [loopAt EXCEPT ![w] = "returned"]
  /\ quitSend' = [quitSend EXCEPT ![w] = "done"]
  /\ UNCHANGED <<poolJobs, stopCall, poolFrame>>

\* wg.Wait() returns: every worker has called wg.Done().
PoolWait ==
  /\ stopCall = "waiting"
  /\ \A w \in Workers : loopAt[w] = "returned"
  /\ stopCall' = "returned"
  /\ UNCHANGED <<poolJobs, loopAt, quitSend, poolFrame>>

NextPool ==
  \/ PoolSend
  \/ \E w \in Workers : PoolReceive(w)
  \/ \E w \in Workers : PoolReturn(w)
  \/ PoolStop
  \/ \E w \in Workers : PoolQuit(w)
  \/ PoolWait

----------------------------------------------------------------------------
(* Specifications *)

vars == <<fpVars, jobVars, srvVars, libVars>>

Init == InitFp /\ InitJob /\ InitServer /\ InitSvc /\ InitApi /\ InitH /\ InitPool

Spec == Init /\ [][Next]_vars

SpecQ == Init /\ [][NextQ]_vars

SpecR == Init /\ [][NextR]_vars

SpecS == Init /\ [][NextS]_vars

SpecW == Init /\ [][NextW]_vars

\* The Go scheduler lets every goroutine that can take a step take one: the
\* upload handlers blocked in their send, and each worker.
FairScheduling ==
  /\ WF_vars(\E j \in senders : Enqueue(j))
  /\ \A w \in Workers : WF_vars(WorkerStep(w))

SpecL == Init /\ [][NextL]_vars /\ FairScheduling

SpecOS == Init /\ [][NextOS]_vars

SpecJob == Init /\ [][NextJob]_vars

SpecSvc == Init /\ [][NextSvc]_vars

SpecApi == Init /\ [][NextApi]_vars

SpecH == Init /\ [][NextH]_vars

\* Every AnalyzePCAP call returns; a select with both cases ready picks one of
\* them at random, so a worker that comes back to its select again and again
\* with its quit signal pending takes the quit case in the end; a goroutine
\* that can run does run.  Nothing is assumed of the producers or of how often
\* a worker takes a job.
FairPool ==
  /\ \A w \in Workers : WF_vars(PoolReturn(w))
  /\ \A w \in Workers : SF_vars(PoolQuit(w))
  /\ WF_vars(PoolWait)

SpecPool == Init /\ [][NextPool]_vars /\ FairPool

----------------------------------------------------------------------------
(* Properties of the flow trackers, checked under SpecJob *)

SampleAddrs == {IP_Client, IP_Server, IP_Lan, IP6_Local}
SamplePorts == {22, 80, 443, 51000}

IsRouted(pkt) == pkt.net \in {"ipv4", "ipv6"}
SeenOf(l4) == {i \in 1..Len(seen) : IsRouted(seen[i]) /\ seen[i].l4 = l4}
Reversed(p, q) ==
  /\ p.l4 = q.l4 /\ p.src = q.dst /\ p.dst = q.src
  /\ p.sport = q.dport /\ p.dport = q.sport

KeySymmetricOnSamples ==
  \A a, b \in SampleAddrs : \A pa, pb \in SamplePorts :
    /\ getStreamKey(a, b, pa, pb) = getStreamKey(b, a, pb, pa)
    /\ getFlowKey(a, b, pa, pb) = getFlowKey(b, a, pb, pa)

\* C6: flow-key normalization is symmetric: getStreamKey(A,B,pA,pB) =
\* getStreamKey(B,A,pB,pA) and getFlowKey(A,B,pA,pB) = getFlowKey(B,A,pB,pA),
\* also when A = B and when pA = pB, so that every packet read and its reverse
\* name the same tracked record.
FlowKeySymmetric ==
  /\ KeySymmetricOnSamples
  /\ \A i \in SeenOf("tcp") :
       LET p == seen[i] IN
       /\ getStreamKey(p.src, p.dst, p.sport, p.dport) \in DOMAIN job.tcpTracker.streams
       /\ getStreamKey(p.dst, p.src, p.dport, p.sport) \in DOMAIN job.tcpTracker.streams
  /\ \A i \in SeenOf("udp") :
       LET p == seen[i] IN
       /\ getFlowKey(p.src, p.dst, p.sport, p.dport) \in DOMAIN job.udpTracker.flows
       /\ getFlowKey(p.dst, p.src, p.dport, p.sport) \in DOMAIN job.udpTracker.flows
  /\ \A i, j \in SeenOf("tcp") :
       Reversed(seen[i], seen[j]) =>
         getStreamKey(seen[i].src, seen[i].dst, seen[i].sport, seen[i].dport)
           = getStreamKey(seen[j].src, seen[j].dst, seen[j].sport, seen[j].dport)
  /\ \A i, j \in SeenOf("udp") :
       Reversed(seen[i], seen[j]) =>
         getFlowKey(seen[i].src, seen[i].dst, seen[i].sport, seen[i].dport)
           = getFlowKey(seen[j].src, seen[j].dst, seen[j].sport, seen[j].dport)

\* Both directions of a TCP flow have been read into one stream, and a UDP
\* packet whose two endpoints have the same address has been read.
FlowKeySymmetricWitness ==
  /\ \E i, j \in SeenOf("tcp") : seen[i].src # seen[i].dst /\ Reversed(seen[i], seen[j])
  /\ Cardinality(DOMAIN job.tcpTracker.streams) = 1
  /\ \E i \in SeenOf("udp") : seen[i].src = seen[i].dst
  /\ Cardinality(DOMAIN job.udpTracker.flows) = 1

RECURSIVE SumSizes(_, _)
SumSizes(packets, idx) ==
  IF idx = {} THEN 0
  ELSE LET i == CHOOSE k \in idx : TRUE
       IN PacketSize(packets[i]) + SumSizes(packets, idx \ {i})

TCPPacketsOf(c) ==
  {i \in SeenOf("tcp") :
     getStreamKey(seen[i].src, seen[i].dst, seen[i].sport, seen[i].dport)
       = getStreamKey(c.SrcIP, c.DstIP, c.SrcPort, c.DstPort)}
UDPPacketsOf(c) ==
  {i \in SeenOf("udp") :
     getFlowKey(seen[i].src, seen[i].dst, seen[i].sport, seen[i].dport)
       = getFlowKey(c.SrcIP, c.DstIP, c.SrcPort, c.DstPort)}
ICMPPacketsOf(c) ==
  {i \in SeenOf("icmp4") : seen[i].src = c.SrcIP /\ seen[i].dst = c.DstIP}

\* C7: byte conservation: every TCP and every UDP record emitted by Finalize
\* has BytesSent + BytesReceived equal to the sum of the payload lengths of
\* all the packets read for its flow key, in whatever directions and order.
ByteConservation ==
  jobPhase = "done" =>
    /\ \A c \in job.tcpTracker.Connections :
         c.BytesSent + c.BytesReceived = SumSizes(seen, TCPPacketsOf(c))
    /\ \A c \in job.udpTracker.Connections :
         c.BytesSent + c.BytesReceived = SumSizes(seen, UDPPacketsOf(c))

\* A finalized TCP record that counted bytes in both directions, more than one
\* packet in one of them.
ByteConservationWitness ==
  /\ jobPhase = "done"
  /\ \E c \in job.tcpTracker.Connections :
       /\ c.BytesSent > 0 /\ c.BytesReceived > 0
       /\ Cardinality(TCPPacketsOf(c)) = 3

Min(S) == CHOOSE x \in S : \A y \in S : x <= y
Max(S) == CHOOSE x \in S : \A y \in S : x >= y

\* C8: every record emitted by a tracker's Finalize has DurationMs equal to
\* last-seen minus first-seen (in whole milliseconds) and DurationMs >= 0,
\* whatever the order of the events' timestamps.
DurationNonNegative ==
  jobPhase = "done" =>
    /\ \A c \in job.tcpTracker.Connections :
         /\ c.DurationMs = Milliseconds(seen[Max(TCPPacketsOf(c))].ts - seen[Min(TCPPacketsOf(c))].ts)
         /\ c.DurationMs >= 0
    /\ \A c \in job.udpTracker.Connections :
         /\ c.DurationMs = Milliseconds(seen[Max(UDPPacketsOf(c))].ts - seen[Min(UDPPacketsOf(c))].ts)
         /\ c.DurationMs >= 0
    /\ \A c \in job.icmpTracker.Connections :
         /\ c.DurationMs = Milliseconds(seen[Max(ICMPPacketsOf(c))].ts - seen[Min(ICMPPacketsOf(c))].ts)
         /\ c.DurationMs >= 0


----------------------------------------------------------------------------
(* End-to-end scenarios, checked under SpecJob *)

\* A TCP packet of the connection 10.0.0.5:51000 - 93.184.216.34:443, sent by
\* the client or by the server.
FromClient(pkt) ==
  /\ pkt.l4 = "tcp" /\ pkt.src = IP_Client /\ pkt.sport = 51000
  /\ pkt.dst = IP_Server /\ pkt.dport = 443
FromServer(pkt) ==
  /\ pkt.l4 = "tcp" /\ pkt.src = IP_Server /\ pkt.sport = 443
  /\ pkt.dst = IP_Client /\ pkt.dport = 51000

\* The sum of the sizes of the packets read so far that satisfy the test.
RECURSIVE SizeOfThose(_, _)
SizeOfThose(Test(_), n) ==
  IF n = 0 THEN 0
  ELSE SizeOfThose(Test, n - 1) + (IF Test(seen[n]) THEN PacketSize(seen[n]) ELSE 0)

\* The capture read was scenario 1: three packets, two of the client and one
\* of the server, and the call has finalized.
ScenarioTCP ==
  /\ jobPhase = "done"
  /\ Len(seen) = 3
  /\ Cardinality({i \in 1..3 : FromClient(seen[i])}) = 2
  /\ Cardinality({i \in 1..3 : FromServer(seen[i])}) = 1

\* The records scenario 1 is said to yield.
ScenarioTCPRecords ==
  LET rows == RowsOf(job, 0) IN
  /\ Cardinality(rows.tcp) = 1
  /\ \A c \in rows.tcp :
       /\ c.Service = "https"
       /\ c.BytesSent = SizeOfThose(FromClient, 3)
       /\ c.BytesReceived = SizeOfThose(FromServer, 3)
  /\ \E a \in rows.assets : a.IPAddress = IP_Client
  /\ \E t \in rows.targets : t.IPAddress = IP_Server /\ t.Label = "public"

\* C22 as stated: scenario 1 yields its records for each order in which the
\* three packets arrive.
ScenarioTCPAnyOrder == ScenarioTCP => ScenarioTCPRecords

\* C22: scenario 1 yields its records for each order in which a packet of
\* the client arrives first; when the server's packet arrives first the one
\* record has the server as its source, service 'unknown' and the two byte
\* counters exchanged, with the same asset and target.
ScenarioTCPClientFirst ==
  ScenarioTCP =>
    IF FromClient(seen[1]) THEN ScenarioTCPRecords
    ELSE LET rows == RowsOf(job, 0) IN
         /\ Cardinality(rows.tcp) = 1
         /\ \A c \in rows.tcp :
              /\ c.SrcIP = IP_Server /\ c.Service = "unknown"
              /\ c.BytesSent = SizeOfThose(FromServer, 3)
              /\ c.BytesReceived = SizeOfThose(FromClient, 3)
         /\ \E a \in rows.assets : a.IPAddress = IP_Client
         /\ \E t \in rows.targets : t.IPAddress = IP_Server /\ t.Label = "public"

\* Two data packets of the client with the server's answer between them.
ScenarioTCPClientFirstWitness ==
  /\ ScenarioTCP
  /\ FromClient(seen[1]) /\ FromServer(seen[2]) /\ FromClient(seen[3])
  /\ SizeOfThose(FromClient, 3) = 2 * Len(P_Data)
  /\ \E c \in RowsOf(job, 0).tcp : c.BytesSent = 2 * Len(P_Data) /\ c.BytesReceived = Len(P_Hello)


\* The packets read that the loop processes: those with an IPv4 or IPv6 layer.
Processed == {i \in 1..Len(seen) : seen[i].net \in {"ipv4", "ipv6"}}

Sources == {seen[i].src : i \in Processed}
Destinations == {seen[i].dst : i \in Processed}

\* The sample addresses by range: 10.0.0.0/8, 192.168.0.0/16 and fe80::/10 are
\* private, 93.184.216.34 and 2001:db8::1 are not.
LabelByRange(ip) == IF ip \in {IP_Client, IP_Lan, IP6_Local} THEN "local" ELSE "public"

\* C24: after finalization there is exactly one target row per distinct
\* destination address of the processed packets and none for any other
\* address, each labeled by its address alone; every source address has
\* exactly one asset row.
TargetsAreDestinations ==
  jobPhase = "done" =>
    LET rows == RowsOf(job, 0) IN
    /\ {t.IPAddress : t \in rows.targets} = Destinations
    /\ Cardinality(rows.targets) = Cardinality(Destinations)
    /\ \A t \in rows.targets : t.Label = LabelByRange(t.IPAddress)
    /\ {a.IPAddress : a \in rows.assets} = Sources
    /\ Cardinality(rows.assets) = Cardinality(Sources)

\* Two packets went to the same destination, from an address that is never a
\* destination, and a third packet from an address to itself.
TargetsAreDestinationsWitness ==
  /\ jobPhase = "done"
  /\ Len(seen) = 3 /\ Cardinality(Processed) = 3
  /\ seen[1].dst = seen[2].dst
  /\ Cardinality(RowsOf(job, 0).targets) = 2
  /\ Sources \ Destinations # {}
  /\ Sources \cap Destinations # {}



\* The ICMP messages read, and the directed pairs they travelled on.
ICMPMessages == {i \in Processed : seen[i].l4 = "icmp4"}
ICMPPairs == {<<seen[i].src, seen[i].dst>> : i \in ICMPMessages}

Endpoints(r) == <<r.SrcIP, r.SrcPort, r.DstIP, r.DstPort>>
EndpointsOfPacket(pkt) == <<pkt.src, pkt.sport, pkt.dst, pkt.dport>>

\* What one packet does to the records `before` of its tracker, giving `after`:
\* a record of its key keeps its endpoints and gains the packet's size on the
\* side the packet's sender is on, a new record takes the packet's endpoints,
\* and no other record changes.
Attributed(before, after, key, pkt) ==
  /\ DOMAIN after = DOMAIN before \cup {key}
  /\ \A k \in DOMAIN before \ {key} : after[k] = before[k]
  /\ LET sent == IF key \in DOMAIN before THEN before[key].BytesSent ELSE 0
         received == IF key \in DOMAIN before THEN before[key].BytesReceived ELSE 0
         first == IF key \in DOMAIN before THEN Endpoints(before[key])
                  ELSE EndpointsOfPacket(pkt)
     IN /\ Endpoints(after[key]) = first
        /\ IF pkt.src = first[1] /\ pkt.sport = first[2]
           THEN /\ after[key].BytesSent = sent + PacketSize(pkt)
                /\ after[key].BytesReceived = received
           ELSE /\ after[key].BytesSent = sent
                /\ after[key].BytesReceived = received + PacketSize(pkt)

\* C28: every TCP or UDP packet adds its payload length to BytesSent when its
\* (source address, source port) is the record's first-seen (SrcIP, SrcPort)
\* and to BytesReceived otherwise; a record's SrcIP, SrcPort, DstIP and DstPort
\* are those of the first packet of its key, are never changed by a later
\* packet, and are the ones Finalize emits.
FirstSeenDirection ==
  [][/\ Len(seen') = Len(seen) + 1 =>
         LET pkt == seen'[Len(seen')]
             key == getStreamKey(pkt.src, pkt.dst, pkt.sport, pkt.dport)
         IN /\ (pkt.net \in {"ipv4", "ipv6"} /\ pkt.l4 = "tcp")
                 => Attributed(job.tcpTracker.streams, job'.tcpTracker.streams, key, pkt)
            /\ (pkt.net \in {"ipv4", "ipv6"} /\ pkt.l4 = "udp")
                 => Attributed(job.udpTracker.flows, job'.udpTracker.flows, key, pkt)
     /\ (jobPhase = "read" /\ jobPhase' = "done") =>
         /\ {<<Endpoints(c), c.BytesSent, c.BytesReceived>> : c \in job'.tcpTracker.Connections}
              = {<<Endpoints(job.tcpTracker.streams[k]), job.tcpTracker.streams[k].BytesSent,
                   job.tcpTracker.streams[k].BytesReceived>> : k \in DOMAIN job.tcpTracker.streams}
         /\ {<<Endpoints(c), c.BytesSent, c.BytesReceived>> : c \in job'.udpTracker.Connections}
              = {<<Endpoints(job.udpTracker.flows[k]), job.udpTracker.flows[k].BytesSent,
                   job.udpTracker.flows[k].BytesReceived>> : k \in DOMAIN job.udpTracker.flows}
    ]_vars

\* The server spoke first and the client answered: the record's source is the
\* server, the second endpoint of the normalized key, and both counters moved.
FirstSeenDirectionWitness ==
  /\ jobPhase = "read" /\ Len(seen) = 2
  /\ \E k \in DOMAIN job.tcpTracker.streams :
       LET r == job.tcpTracker.streams[k] IN
       /\ Endpoints(r) = EndpointsOfPacket(seen[1])
       /\ r.SrcIP = IP_Server /\ StrLess(r.DstIP, r.SrcIP)
       /\ EndpointsOfPacket(seen[2]) = <<r.DstIP, r.DstPort, r.SrcIP, r.SrcPort>>
       /\ r.BytesSent = PacketSize(seen[1]) /\ r.BytesReceived = PacketSize(seen[2])
       /\ r.BytesSent # r.BytesReceived


\* What one packet does to the service labels of its tracker's records: the
\* record of its key keeps its label, and a new record gets `label`.
Labeled(before, after, key, label) ==
  /\ key \in DOMAIN after
  /\ after[key].Service = IF key \in DOMAIN before THEN before[key].Service ELSE label
  /\ \A k \in DOMAIN before : after[k].Service = before[k].Service

\* C29: a record's Service is set when the record is created, for TCP to
\* identifyService(destination port of the first packet), for UDP to the same
\* or, when that is 'unknown', to identifyService(source port of the first
\* packet); no later packet changes it and Finalize emits it.
ServiceResolvedOnce ==
  [][/\ Len(seen') = Len(seen) + 1 =>
         LET pkt == seen'[Len(seen')]
             key == getStreamKey(pkt.src, pkt.dst, pkt.sport, pkt.dport)
         IN /\ (pkt.net \in {"ipv4", "ipv6"} /\ pkt.l4 = "tcp")
                 => Labeled(job.tcpTracker.streams, job'.tcpTracker.streams, key,
                            identifyService(pkt.dport))
            /\ (pkt.net \in {"ipv4", "ipv6"} /\ pkt.l4 = "udp")
                 => Labeled(job.udpTracker.flows, job'.udpTracker.flows, key,
                            IF identifyService(pkt.dport) # "unknown"
                            THEN identifyService(pkt.dport)
                            ELSE identifyService(pkt.sport))
     /\ (jobPhase = "read" /\ jobPhase' = "done") =>
         /\ {<<Endpoints(c), c.Service>> : c \in job'.tcpTracker.Connections}
              = {<<Endpoints(job.tcpTracker.streams[k]), job.tcpTracker.streams[k].Service>> :
                   k \in DOMAIN job.tcpTracker.streams}
         /\ {<<Endpoints(c), c.Service>> : c \in job'.udpTracker.Connections}
              = {<<Endpoints(job.udpTracker.flows[k]), job.udpTracker.flows[k].Service>> :
                   k \in DOMAIN job.udpTracker.flows}
    ]_vars

\* A UDP flow was labeled 'dhcp' by its first packet's destination port 67 and
\* kept the label when the reply to port 68 came; another took 'dns' from its
\* source port because its destination port 5353 is unclassified.
ServiceResolvedOnceWitness ==
  /\ jobPhase = "done" /\ Len(seen) = 3
  /\ seen[1].l4 = "udp" /\ seen[1].dport = 67
  /\ seen[2].l4 = "udp" /\ seen[2].dport = 68 /\ seen[2].src = seen[1].dst
  /\ \E c, d \in job.udpTracker.Connections :
       /\ c.DstPort = 67 /\ c.Service = "dhcp" /\ c.BytesReceived > 0
       /\ d.DstPort = 5353 /\ d.SrcPort = 53 /\ d.Service = "dns"


\* The two (address, port) ends of a TCP packet, in no order: what the
\* normalized stream key identifies.
Ends(pkt) == {<<pkt.src, pkt.sport>>, <<pkt.dst, pkt.dport>>}
EndsOfRecord(r) == {<<r.SrcIP, r.SrcPort>>, <<r.DstIP, r.DstPort>>}
TCPEnds == {Ends(seen[i]) : i \in SeenOf("tcp")}
TCPBetween(ends) == {i \in SeenOf("tcp") : Ends(seen[i]) = ends}

\* C30: the TCP tracker holds exactly one stream per distinct normalized key
\* of the TCP packets read, whatever their FIN and RST flags, and Finalize
\* emits exactly one record per key; the record counts the bytes of all the
\* key's packets and ends at the last of them, those after a FIN or RST
\* included.
FinRstNeverSplit ==
  /\ Cardinality(DOMAIN job.tcpTracker.streams) = Cardinality(TCPEnds)
  /\ {EndsOfRecord(job.tcpTracker.streams[k]) : k \in DOMAIN job.tcpTracker.streams} = TCPEnds
  /\ \A k \in DOMAIN job.tcpTracker.streams :
       LET r == job.tcpTracker.streams[k]
           mine == TCPBetween(EndsOfRecord(r))
       IN /\ r.BytesSent + r.BytesReceived = SumSizes(seen, mine)
          /\ r.EndTime = seen[Max(mine)].ts
          /\ r.StartTime = seen[Min(mine)].ts
          /\ r.FINSeen = (\E i \in mine : seen[i].fin)
          /\ r.RSTSeen = (\E i \in mine : seen[i].rst)
  /\ jobPhase = "done" =>
       /\ Cardinality(job.tcpTracker.Connections) = Cardinality(TCPEnds)
       /\ \A c \in job.tcpTracker.Connections :
            /\ EndsOfRecord(c) \in TCPEnds
            /\ c.BytesSent + c.BytesReceived = SumSizes(seen, TCPBetween(EndsOfRecord(c)))
            /\ c.EndTime = seen[Max(TCPBetween(EndsOfRecord(c)))].ts

\* A FIN, then a RST, then data on the same key: one record holding all three.
FinRstNeverSplitWitness ==
  /\ jobPhase = "done" /\ Len(seen) = 3
  /\ seen[1].fin /\ seen[2].rst /\ ~seen[3].fin /\ ~seen[3].rst
  /\ PacketSize(seen[3]) > 0
  /\ Ends(seen[1]) = Ends(seen[2]) /\ Ends(seen[2]) = Ends(seen[3])
  /\ Cardinality(job.tcpTracker.Connections) = 1
  /\ \A c \in job.tcpTracker.Connections :
       c.BytesSent + c.BytesReceived
         = PacketSize(seen[1]) + PacketSize(seen[2]) + PacketSize(seen[3])

----------------------------------------------------------------------------
(* Properties of the service classifier, checked under SpecSvc *)

\* C25: every lookup returns the table's name for its port: 20 ftp-data,
\* 21 ftp, 22 ssh, 23 telnet, 25 smtp, 53 dns, 67 and 68 dhcp, 80 http,
\* 110 pop3, 143 imap, 443 https, 445 smb, 3306 mysql, 3389 rdp,
\* 5432 postgresql, 6881 to 6889 and 6969 torrent, and unknown for every
\* other port.
ServiceByTable ==
  LET named == (20 :> "ftp-data") @@ (21 :> "ftp") @@ (22 :> "ssh") @@ (23 :> "telnet")
               @@ (25 :> "smtp") @@ (53 :> "dns") @@ (67 :> "dhcp") @@ (68 :> "dhcp")
               @@ (80 :> "http") @@ (110 :> "pop3") @@ (143 :> "imap") @@ (443 :> "https")
               @@ (445 :> "smb") @@ (3306 :> "mysql") @@ (3389 :> "rdp")
               @@ (5432 :> "postgresql") @@ (6969 :> "torrent")
  IN lookupPort # NoPort =>
       /\ lookupPort \in DOMAIN named => lookupService = named[lookupPort]
       /\ (lookupPort >= 6881 /\ lookupPort <= 6889) => lookupService = "torrent"
       /\ (lookupPort \notin DOMAIN named /\ (lookupPort < 6881 \/ lookupPort > 6889)) => lookupService = "unknown"
       /\ lookupPort = 6885 => lookupService = "torrent"
       /\ lookupPort = 22 => lookupService = "ssh"
       /\ lookupPort = 9999 => lookupService = "unknown"

\* The last port of the torrent range was looked up.
ServiceByTableWitness == lookupPort = 6889 /\ lookupService = "torrent"


----------------------------------------------------------------------------
(* Properties of the analysis handlers, checked under SpecApi *)

\* C27: a GetAnalysis or DeleteAnalysis request returns an analysis's status
\* or results, or deletes the analysis or a file, only for the user the
\* analysis was created for; when the analysis read belongs to another user the
\* response is 403 'Access denied' and the table and the files are unchanged.
UserIsolation ==
  [][LET r == response'
         answered == response' # response
         foreign == r.id \in DOMAIN owners /\ owners[r.id] # r.user
     IN /\ answered =>
             /\ r.found => r.id \in DOMAIN apiAnalyses
             /\ (r.found /\ foreign) => r.code = 403 /\ r.msg = "Access denied"
             /\ foreign => /\ r.about = 0
                            /\ r.code # 200
                            /\ apiAnalyses' = apiAnalyses
                            /\ apiUploads' = apiUploads
             /\ r.about # 0 => r.about = r.id /\ owners[r.id] = r.user
             /\ r.code = 200 => r.found /\ owners[r.id] = r.user
        /\ \A id \in DOMAIN apiAnalyses \ DOMAIN apiAnalyses' :
             answered /\ r.op = "DeleteAnalysis" /\ r.id = id /\ owners[id] = r.user
        /\ \A f \in apiUploads \ apiUploads' :
             /\ answered /\ r.op = "DeleteAnalysis" /\ r.id \in DOMAIN apiAnalyses
             /\ apiAnalyses[r.id].Filename = f /\ owners[r.id] = r.user
    ]_vars

\* A user asked to delete a completed analysis of another user and was refused;
\* the analysis and its file are there.
UserIsolationWitness ==
  /\ response.op = "DeleteAnalysis" /\ response.code = 403
  /\ response.id \in DOMAIN apiAnalyses
  /\ apiAnalyses[response.id].UserID # response.user
  /\ apiAnalyses[response.id].Status = "completed"
  /\ apiAnalyses[response.id].Filename \in apiUploads

----------------------------------------------------------------------------
(* Properties of the fingerprint engine, checked under SpecOS *)

Analyzers == {"AnalyzeTCP", "AnalyzeHTTP", "AnalyzeSSH", "AnalyzeDHCP"}

\* The confidence an address has in a results map, 0 when it has no entry yet.
ConfidenceOf(results, ip) == IF ip \in DOMAIN results THEN results[ip].Confidence ELSE 0

\* C9: confidence bound: after any sequence of analyzer calls every Confidence
\* returned by GetResults, and every OSConfidence held by an asset, is in [0,100].
ConfidenceBound ==
  /\ fpLast.op = "GetResults" => \A ip \in DOMAIN fp : fp[ip].Confidence \in 0..100
  /\ \A ip \in DOMAIN fpAssets : fpAssets[ip].OSConfidence \in 0..100

\* GetResults has capped a confidence that the calls had driven over 100, and
\* the capped value is in the asset.
ConfidenceBoundWitness ==
  /\ fpLast.op = "GetResults"
  /\ \E ip \in DOMAIN fp :
       /\ fpPrev[ip].Confidence > 100
       /\ fp[ip].Confidence = 100
       /\ fpAssets[ip].OSConfidence = 100

LabelOf(results, ip) == IF ip \in DOMAIN results THEN results[ip].OSType ELSE "Unknown"

\* C11 as claimed: when an analyzer call repeats the call before it (same
\* analyzer, same address, same input), the address's label and confidence are
\* what they were after the first of the two calls.
AnalyzersIdempotent ==
  fpLast.repeat =>
    /\ fp[fpLast.ip].OSType = LabelOf(fpPrev, fpLast.ip)
    /\ fp[fpLast.ip].Confidence = ConfidenceOf(fpPrev, fpLast.ip)

\* C11 as amended: a repeated call never changes the label; a repeated
\* AnalyzeHTTP or AnalyzeSSH call leaves the confidence as it was, a repeated
\* AnalyzeTCP call adds 0, 5, 10 or 15 to it and a repeated AnalyzeDHCP call
\* adds 5 to it unless the payload is empty.
RepeatedCallRule ==
  fpLast.repeat =>
    LET before == ConfidenceOf(fpPrev, fpLast.ip)
        after == fp[fpLast.ip].Confidence
    IN /\ fp[fpLast.ip].OSType = LabelOf(fpPrev, fpLast.ip)
       /\ fpLast.op \in {"AnalyzeHTTP", "AnalyzeSSH"} => after = before
       /\ fpLast.op = "AnalyzeTCP" => after - before \in {0, 5, 10, 15}
       /\ fpLast.op = "AnalyzeDHCP" =>
            after - before = (IF Len(fpLast.in) > 0 THEN 5 ELSE 0)

\* An AnalyzeHTTP call that matched a User-Agent has just been repeated.
RepeatedCallRuleWitness ==
  /\ fpLast.repeat
  /\ fpLast.op = "AnalyzeHTTP"
  /\ fp[fpLast.ip].Confidence \in {90, 95}


\* What the vocabulary makes of the sample User-Agent payloads: the label and
\* the confidence, 95 for a refined match (a Windows version, a Linux
\* distribution) and 90 otherwise; "none" for a payload without a match.
HTTPVerdict(payload) ==
  CASE payload = P_HttpWin10 -> [OSType |-> "Windows 10/11", Confidence |-> 95]
    [] payload = P_HttpWin -> [OSType |-> "Windows", Confidence |-> 90]
    [] payload = P_HttpUbuntu -> [OSType |-> "Linux (Ubuntu)", Confidence |-> 95]
    [] payload = P_HttpAndroid -> [OSType |-> "Android", Confidence |-> 90]
    [] payload = P_HttpMac -> [OSType |-> "macOS", Confidence |-> 90]
    [] payload = P_HttpIPhone -> [OSType |-> "iOS", Confidence |-> 90]
    [] OTHER -> [OSType |-> "none", Confidence |-> 0]

\* C23: whatever the results hold for an address, an AnalyzeHTTP call with a
\* matching User-Agent payload leaves the address with the matched label and
\* confidence exactly 90, or 95 for a refined match; and the Windows NT 10.0
\* payload from 192.168.1.10 gives the asset 'Windows 10/11' at 95.
HTTPAuthoritative ==
  /\ \A ip \in FpAddrs, payload \in HttpPayloads :
       HTTPVerdict(payload).OSType # "none"
         => LET info == AnalyzeHTTP(fp, ip, payload)[ip] IN
            /\ info.OSType = HTTPVerdict(payload).OSType
            /\ info.Confidence = HTTPVerdict(payload).Confidence
  /\ fpLast.op = "AnalyzeHTTP" /\ HTTPVerdict(fpLast.in).OSType # "none"
       => /\ fp[fpLast.ip].OSType = HTTPVerdict(fpLast.in).OSType
          /\ fp[fpLast.ip].Confidence = HTTPVerdict(fpLast.in).Confidence
  /\ LET asset == ApplyOSResults(TrackAsset(fpAssets, IP_Lan),
                                 GetResults(AnalyzeHTTP(fp, IP_Lan, P_HttpWin10)))[IP_Lan]
     IN asset.OSType = "Windows 10/11" /\ asset.OSConfidence = 95

\* The Windows NT 10.0 payload arrives for 192.168.1.10 when the address is
\* 'Windows' with a confidence above 95: it becomes 'Windows 10/11' at 95.
HTTPAuthoritativeWitness ==
  /\ fpLast.op = "AnalyzeHTTP" /\ fpLast.in = P_HttpWin10 /\ fpLast.ip = IP_Lan
  /\ IP_Lan \in DOMAIN fpPrev
  /\ fpPrev[IP_Lan].OSType = "Windows" /\ fpPrev[IP_Lan].Confidence > 95
  /\ fp[IP_Lan].OSType = "Windows 10/11" /\ fp[IP_Lan].Confidence = 95


\* Window sizes and TTLs tried on every reachable state of an address: the six
\* listed sizes and one other, the ends of both TTL ranges and their neighbours.
TriedWindows == {8192, 64240, 65535, 5840, 14600, 29200, 1024}
TriedTTLs == {32, 33, 64, 65, 128, 129, 255}
\* Every window size with a Linux and a Windows TTL, and every TTL with a
\* Windows window size, a Linux one and one that is neither.
TriedTCP == (TriedWindows \X {64, 128}) \cup ({8192, 5840, 1024} \X TriedTTLs)

\* The operating system a window size or a TTL speaks for, "none" if none.
WindowSpeaksFor(w) ==
  IF w \in {8192, 64240, 65535} THEN "Windows"
  ELSE IF w \in {5840, 14600, 29200} THEN "Linux" ELSE "none"
TTLSpeaksFor(t) ==
  IF t > 32 /\ t <= 64 THEN "Linux"
  ELSE IF t > 64 /\ t <= 128 THEN "Windows" ELSE "none"

\* The tags one AnalyzeTCP call appends, window first.
TagsOf(w, t) ==
  (IF WindowSpeaksFor(w) = "Windows" THEN <<"tcp_window_windows">>
   ELSE IF WindowSpeaksFor(w) = "Linux" THEN <<"tcp_window_linux">> ELSE <<>>)
  \o (IF TTLSpeaksFor(t) = "Linux" THEN <<"ttl_linux">>
      ELSE IF TTLSpeaksFor(t) = "Windows" THEN <<"ttl_windows">> ELSE <<>>)

\* C31: for an address whose label is set, an AnalyzeTCP call keeps the label;
\* a window-size or TTL signal for another operating system appends its tag
\* and adds nothing to the confidence, so a call whose signals are all for
\* other systems leaves label and confidence as they were.
NoLabelFlapping ==
  /\ \A ip \in DOMAIN fp, in \in TriedTCP :
       LET before == fp[ip]
           w == in[1]
           t == in[2]
       IN before.OSType # "Unknown" =>
            AnalyzeTCP(fp, ip, w, t)[ip]
              = [OSType |-> before.OSType,
                 Signals |-> before.Signals \o TagsOf(w, t),
                 Confidence |-> before.Confidence
                   + (IF WindowSpeaksFor(w) = before.OSType THEN 10 ELSE 0)
                   + (IF TTLSpeaksFor(t) = before.OSType THEN 5 ELSE 0)]
  /\ (fpLast.op = "AnalyzeTCP" /\ LabelOf(fpPrev, fpLast.ip) # "Unknown")
       => fp[fpLast.ip].OSType = fpPrev[fpLast.ip].OSType

\* An address labeled 'Linux' got a call with a Windows window size and a
\* Windows TTL: two more tags, the same label, the same confidence.
NoLabelFlappingWitness ==
  /\ fpLast.op = "AnalyzeTCP" /\ fpLast.in = <<8192, 128>>
  /\ fpLast.ip \in DOMAIN fpPrev
  /\ fpPrev[fpLast.ip].OSType = "Linux"
  /\ fp[fpLast.ip].OSType = "Linux"
  /\ fp[fpLast.ip].Confidence = fpPrev[fpLast.ip].Confidence
  /\ fp[fpLast.ip].Signals
       = fpPrev[fpLast.ip].Signals \o <<"tcp_window_windows", "ttl_windows">>

\* The label and confidence the rule gives after a window signal for `os`,
\* then after a TTL signal for `os` ("none": no signal).
RuleWindow(label, confidence, os) ==
  IF os = "none" THEN <<label, confidence>>
  ELSE IF label = "Unknown" THEN <<os, 40>>
  ELSE IF label = os THEN <<label, confidence + 10>>
  ELSE <<label, confidence>>
RuleTTL(label, confidence, os) ==
  IF os # "none" /\ (label = "Unknown" \/ label = os) THEN <<os, confidence + 5>>
  ELSE <<label, confidence>>

\* C32: an AnalyzeTCP call applies the window rule, then the TTL rule: a
\* window size of {8192, 64240, 65535} (Windows) or {5840, 14600, 29200}
\* (Linux) labels an 'Unknown' address with that system at confidence 40 and
\* adds 10 when the label already matches; a TTL in (32,64] (Linux) or
\* (64,128] (Windows) adds 5 and sets the label when the label is 'Unknown'
\* or matches, and changes nothing otherwise.
TCPCharacteristicsRule ==
  /\ \A ip \in FpAddrs, in \in TriedTCP :
       LET after == AnalyzeTCP(fp, ip, in[1], in[2])[ip]
           mid == RuleWindow(LabelOf(fp, ip), ConfidenceOf(fp, ip), WindowSpeaksFor(in[1]))
           end == RuleTTL(mid[1], mid[2], TTLSpeaksFor(in[2]))
       IN <<after.OSType, after.Confidence>> = end
  /\ fpLast.op = "AnalyzeTCP" =>
       LET mid == RuleWindow(LabelOf(fpPrev, fpLast.ip), ConfidenceOf(fpPrev, fpLast.ip),
                             WindowSpeaksFor(fpLast.in[1]))
           end == RuleTTL(mid[1], mid[2], TTLSpeaksFor(fpLast.in[2]))
       IN <<fp[fpLast.ip].OSType, fp[fpLast.ip].Confidence>> = end

\* An address labeled 'Linux' at 45 by a Linux window size and a Linux TTL got
\* the same call again: 10 and 5 were added.
TCPCharacteristicsRuleWitness ==
  /\ fpLast.op = "AnalyzeTCP" /\ fpLast.in = <<5840, 64>> /\ fpLast.repeat
  /\ fpPrev[fpLast.ip].OSType = "Linux" /\ fpPrev[fpLast.ip].Confidence = 45
  /\ fp[fpLast.ip].OSType = "Linux" /\ fp[fpLast.ip].Confidence = 60
  /\ Len(fpPrev[fpLast.ip].Signals) = 3


\* The tags AnalyzeHTTP appends with a label.
HTTPTags ==
  {"http_ua_windows", "http_ua_linux", "http_ua_macos", "http_ua_android", "http_ua_ios"}

\* The last call for address ip before the present one labeled it from a
\* User-Agent.
LabeledByHTTP(ip) ==
  /\ ip \in DOMAIN fpPrev
  /\ fpPrev[ip].Signals # <<>>
  /\ fpPrev[ip].Signals[Len(fpPrev[ip].Signals)] \in HTTPTags

\* C33 as stated, its particular case: after an HTTP User-Agent match has set
\* an address's label, no AnalyzeSSH, AnalyzeTCP or AnalyzeDHCP call for that
\* address changes the label.
HTTPLabelStays ==
  (fpLast.op \in {"AnalyzeSSH", "AnalyzeTCP", "AnalyzeDHCP"} /\ LabeledByHTTP(fpLast.ip))
    => fp[fpLast.ip].OSType = fpPrev[fpLast.ip].OSType

\* C33, amended: a label that is set is never replaced by an AnalyzeTCP or
\* AnalyzeDHCP call nor by an SSH banner that only names OpenSSH; an SSH
\* banner naming ubuntu or debian replaces any label, also one set by an HTTP
\* User-Agent match, with 'Linux (Ubuntu)' or 'Linux (Debian)'.
LabelPrecedence ==
  /\ \A ip \in DOMAIN fp :
       fp[ip].OSType # "Unknown" =>
         /\ \A in \in FpTCPInputs : AnalyzeTCP(fp, ip, in[1], in[2])[ip].OSType = fp[ip].OSType
         /\ AnalyzeDHCP(fp, ip, P_Dhcp)[ip].OSType = fp[ip].OSType
         /\ \A banner \in {P_SshGeneric, P_SshOther, P_NotSsh} :
              AnalyzeSSH(fp, ip, banner)[ip].OSType = fp[ip].OSType
         /\ AnalyzeSSH(fp, ip, P_SshUbuntu)[ip].OSType = "Linux (Ubuntu)"
         /\ AnalyzeSSH(fp, ip, P_SshDebian)[ip].OSType = "Linux (Debian)"
  /\ (fpLast.op \in {"AnalyzeSSH", "AnalyzeTCP", "AnalyzeDHCP"}
       /\ LabelOf(fpPrev, fpLast.ip) # "Unknown")
       => \/ fp[fpLast.ip].OSType = fpPrev[fpLast.ip].OSType
          \/ /\ fpLast.op = "AnalyzeSSH" /\ fpLast.in = P_SshUbuntu
             /\ fp[fpLast.ip].OSType = "Linux (Ubuntu)"

\* An address labeled 'Windows 10/11' from its User-Agent sent an Ubuntu SSH
\* banner and is 'Linux (Ubuntu)' at 85 now.
LabelPrecedenceWitness ==
  /\ fpLast.op = "AnalyzeSSH" /\ fpLast.in = P_SshUbuntu
  /\ LabeledByHTTP(fpLast.ip)
  /\ fpPrev[fpLast.ip].OSType = "Windows 10/11" /\ fpPrev[fpLast.ip].Confidence = 95
  /\ fp[fpLast.ip].OSType = "Linux (Ubuntu)" /\ fp[fpLast.ip].Confidence = 85


\* C34 as stated: in every reachable state of the engine, after every single
\* analyzer call, the confidence of every address is in [0,100].
ConfidenceAlwaysInRange ==
  \A ip \in DOMAIN fp : fp[ip].Confidence \in 0..100

\* C34, amended: the confidence of an address is never below 0; it is at most
\* 100 after GetResults, and after an analyzer call it is above 100 only if
\* the call was an AnalyzeTCP or AnalyzeDHCP call that added 5, 10 or 15 to it
\* or if it was above 100 before and the call left it as it was.
ConfidenceRangeBetweenCalls ==
  \A ip \in DOMAIN fp :
    LET before == ConfidenceOf(fpPrev, ip)
        after == fp[ip].Confidence
    IN /\ after >= 0
       /\ fpLast.op = "GetResults" => after = (IF before > 100 THEN 100 ELSE before)
       /\ (fpLast.op \in Analyzers /\ after > 100) =>
            \/ after = before
            \/ /\ fpLast.op \in {"AnalyzeTCP", "AnalyzeDHCP"} /\ fpLast.ip = ip
               /\ after - before \in {5, 10, 15}

\* An address labeled 'Windows' at 90 from its User-Agent sent a segment with
\* a Windows window size and TTL: its confidence is 105 until GetResults.
ConfidenceRangeBetweenCallsWitness ==
  /\ fpLast.op = "AnalyzeTCP"
  /\ fpLast.ip \in DOMAIN fpPrev
  /\ fpPrev[fpLast.ip].Confidence = 90
  /\ fp[fpLast.ip].Confidence = 105


----------------------------------------------------------------------------
(* Properties of the packet loop and of the merge of the fingerprints,
   checked under SpecJob *)

\* C35: a packet without an IPv4 or IPv6 layer changes nothing the job holds
\* (assets, targets, trackers, fingerprints) and leaves the job where it is; a
\* packet with a network layer and no TCP, UDP or ICMP layer adds its source
\* to the assets and its destination to the targets, changes no other asset,
\* and creates or updates no flow record and no fingerprint.
EventRouting ==
  [][Len(seen') = Len(seen) + 1 =>
       LET pkt == seen'[Len(seen')] IN
       /\ ~IsRouted(pkt) => job' = job /\ jobPhase' = jobPhase
       /\ (IsRouted(pkt) /\ pkt.l4 = "none") =>
            /\ DOMAIN job'.assetMap = DOMAIN job.assetMap \cup {pkt.src}
            /\ \A ip \in DOMAIN job.assetMap \ {pkt.src} :
                 job'.assetMap[ip] = job.assetMap[ip]
            /\ job'.targetMap = job.targetMap \cup {pkt.dst}
            /\ job'.tcpTracker = job.tcpTracker
            /\ job'.udpTracker = job.udpTracker
            /\ job'.icmpTracker = job.icmpTracker
            /\ job'.osFingerprinter = job.osFingerprinter
            /\ jobPhase' = jobPhase
    ]_vars

\* An ARP frame and then a bare IPv6 packet were read: one asset, one target,
\* no flow record and no fingerprint, and the job is still reading.
EventRoutingWitness ==
  /\ jobPhase = "read" /\ Len(seen) = 2
  /\ seen[1].net = "none" /\ seen[2].net = "ipv6" /\ seen[2].l4 = "none"
  /\ DOMAIN job.assetMap = {IP6_Local}
  /\ job.targetMap = {IP6_Public}
  /\ job.tcpTracker = NewTCPTracker /\ job.udpTracker = NewUDPTracker
  /\ job.icmpTracker = NewICMPTracker /\ job.osFingerprinter = NewOSFingerprinter


\* The assets of `after` are those of `before` with the fingerprints of
\* `before` merged in: label and confidence capped at 100 for an address the
\* engine has a state for, 'Unknown' and 0 for any other, and the rows saved
\* carry the same values.
MergedFrom(before, after) ==
  LET os == before.osFingerprinter
      label(ip) == IF ip \in DOMAIN os THEN os[ip].OSType ELSE "Unknown"
      confidence(ip) == IF ip \in DOMAIN os
                        THEN (IF os[ip].Confidence > 100 THEN 100 ELSE os[ip].Confidence)
                        ELSE 0
  IN /\ DOMAIN after.assetMap = DOMAIN before.assetMap
     /\ \A ip \in DOMAIN after.assetMap :
          /\ after.assetMap[ip].OSType = label(ip)
          /\ after.assetMap[ip].OSConfidence = confidence(ip)
          /\ after.assetMap[ip].MACAddress = before.assetMap[ip].MACAddress
     /\ {<<r.IPAddress, r.OSType, r.OSConfidence>> : r \in AssetRows(after, 1)}
          = {<<ip, label(ip), confidence(ip)>> : ip \in DOMAIN before.assetMap}

\* The job as it is when the capture holds the packets read so far twice over.
ReadTwice == RunPackets(job, seen)

\* C36: while packets are read every asset is 'Unknown' with confidence 0; the
\* fingerprints are merged into the assets in the one step that ends the
\* capture, with the trackers finalized in the same step; every asset then
\* carries, and is saved with, the label of the engine's final state for its
\* address and that state's confidence capped at 100, and an asset the engine
\* has no state for is saved as 'Unknown' with confidence 0. The same holds for
\* the capture that holds the packets read twice over.
FingerprintMergedOnce ==
  [][/\ jobPhase' = "read" =>
          \A ip \in DOMAIN job'.assetMap :
            job'.assetMap[ip].OSType = "Unknown" /\ job'.assetMap[ip].OSConfidence = 0
     /\ (jobPhase = "read" /\ jobPhase' = "done") =>
          /\ MergedFrom(job, job')
          /\ job'.tcpTracker = TCPFinalize(job.tcpTracker)
          /\ job'.udpTracker = UDPFinalize(job.udpTracker)
          /\ job'.icmpTracker = ICMPFinalize(job.icmpTracker)
          /\ MergedFrom(ReadTwice, FinalizeJob(ReadTwice))
    ]_vars

\* A capture ended in which one address sent a Windows 10 User-Agent and
\* another only an ICMP message: the first is saved as 'Windows 10/11' at 95,
\* the second, which the engine has no state for, as 'Unknown' at 0.
FingerprintMergedOnceWitness ==
  /\ jobPhase = "done"
  /\ IP_Lan \in DOMAIN job.assetMap /\ IP_Client \in DOMAIN job.assetMap
  /\ IP_Client \notin DOMAIN job.osFingerprinter
  /\ \E r \in AssetRows(job, 1) :
       r.IPAddress = IP_Lan /\ r.OSType = "Windows 10/11" /\ r.OSConfidence = 95
  /\ \E r \in AssetRows(job, 1) :
       r.IPAddress = IP_Client /\ r.OSType = "Unknown" /\ r.OSConfidence = 0


----------------------------------------------------------------------------
(* Properties of the analysis handlers beside the workers, checked under SpecH *)

\* The records of the call worker w is in, each with the table it goes to.
RecordsOf(w) ==
  LET all == RowsOf(slots[StateSlot(w)], wk[w].job.AnalysisID) IN
  UNION {{<<TableOf(kind), row>> : row \in all[kind]} : kind \in DOMAIN all}

\* C37: GetAnalysis answers with results only for an analysis whose status is
\* 'completed'; a worker writes 'completed' only when every record of its
\* call has been saved or its save has failed; and once results have been
\* returned for an analysis, no record of that analysis that is missing from
\* them is saved.
ResultsOnlyWhenComplete ==
  [][/\ (shown' # shown /\ shown'.kind = "results") =>
          /\ shown'.id \in DOMAIN analyses
          /\ analyses[shown'.id].status = "completed"
          /\ shown'.status = "completed"
     /\ \A w \in Workers :
          LET id == wk[w].job.AnalysisID IN
          (id \in DOMAIN writes /\ writes'[id] = Append(writes[id], "completed")) =>
             \A rec \in RecordsOf(w) : rec[2] \in db[rec[1]] \/ rec[2] \in dropped
     /\ shown.kind = "results" => RowsFor(db', shown.id) \subseteq shown.rows
    ]_vars

\* GetAnalysis returned the results of a completed analysis one of whose
\* three records failed to save: two records, and the third is never saved.
ResultsOnlyWhenCompleteWitness ==
  /\ shown.kind = "results" /\ shown.status = "completed"
  /\ Cardinality(shown.rows) = 2
  /\ \E row \in dropped : row.AnalysisID = shown.id
  /\ \A w \in Workers : wk[w].pc = "idle"

\* C39 as stated: once DeleteAnalysis has answered 200 for an analysis, no
\* row of table analyses and no asset, target or connection row with its id
\* is written.
DeletedForGood ==
  [][\A id \in deleted :
       /\ id \notin DOMAIN analyses'
       /\ RowsFor(db', id) \subseteq RowsFor(db, id)
    ]_vars


----------------------------------------------------------------------------
(* Properties of WorkerPool.Stop, checked under SpecPool *)

\* C38: once WorkerPool.Stop has been called, and given that every
\* AnalyzePCAP call returns, every worker takes its quit signal and returns
\* and wg.Wait() in Stop returns, whatever is left in JobQueue and however
\* many jobs the producers go on sending.
StopReturns ==
  (stopCall = "waiting") ~>
     (stopCall = "returned" /\ \A w \in Workers : loopAt[w] = "returned" /\ quitSend[w] = "done")

\* WorkerPool.Stop has returned and JobQueue is full.
StopReturnsWitness ==
  /\ stopCall = "returned"
  /\ \A w \in Workers : loopAt[w] = "returned"
  /\ poolJobs = JobQueueCap


----------------------------------------------------------------------------
(* Properties of the upload handler, checked under Spec *)

\* The requests UploadPCAP answers with an error: no file, an extension other
\* than .pcap and .pcapng, a failing file save, a failing CreateAnalysis.
RejectedRequests ==
  {req \in UploadRequests :
     \/ ~req.hasFile
     \/ req.ext \notin {".pcap", ".pcapng"}
     \/ ~req.saveOK
     \/ ~req.createOK}

\* C40: every job that enters JobQueue was handed over by an upload handler
\* after CreateAnalysis had made a row with the job's id, status 'pending'
\* and the job's file; an upload that is rejected (no file, wrong extension,
\* failing save, failing CreateAnalysis) makes no row, hands over no job and
\* leaves no file at its upload path, the file saved before a failing
\* CreateAnalysis being removed; any other upload makes the row and stores
\* the file.
UploadsEnqueueCreated ==
  [][/\ Len(queue') = Len(queue) + 1 =>
          LET j == queue'[Len(queue')] IN
          /\ j \in senders
          /\ j.AnalysisID \in DOMAIN analyses
          /\ Head(writes[j.AnalysisID]) = "pending"
          /\ analyses[j.AnalysisID].filename = j.PcapPath
     /\ requests' = requests + 1 =>
          /\ \E req \in UploadRequests :
               LET out == UploadOutcome(req, disk, analyses, nextID, requests + 1) IN
               /\ disk' = out.files /\ analyses' = out.table
               /\ senders' = senders \cup out.jobs /\ queue' = queue
               /\ out.jobs # {} =>
                    /\ out.code = 200 /\ req \notin RejectedRequests
                    /\ \A j \in out.jobs : /\ j.AnalysisID \notin DOMAIN analyses
                                           /\ analyses'[j.AnalysisID].status = "pending"
                                           /\ j.PcapPath \in DOMAIN disk'
          /\ \A req \in RejectedRequests :
               LET out == UploadOutcome(req, disk, analyses, nextID, requests + 1) IN
               /\ out.code # 200 /\ out.jobs = {} /\ out.table = analyses
               /\ (requests + 1) \notin DOMAIN out.files
    ]_vars

\* The first upload was rejected; the second was stored, got analysis 1 with
\* status 'pending', and its job is in JobQueue.
UploadsEnqueueCreatedWitness ==
  /\ requests = 2 /\ nextID = 2
  /\ DOMAIN disk = {2}
  /\ queue = <<[AnalysisID |-> 1, PcapPath |-> 2]>>
  /\ analyses[1].status = "pending"

----------------------------------------------------------------------------
(* Properties of the job queue and the worker pool, checked under Spec *)

Busy(w) == wk[w].pc \notin {"idle", "exited"}

\* C1: each enqueued job is received by at most one worker, so AnalyzePCAP is
\* started at most once per job and no two workers ever hold the same job.
AtMostOnceDequeue ==
  /\ \A id \in DOMAIN runs : runs[id] <= 1
  /\ \A w1, w2 \in Workers :
       Busy(w1) /\ Busy(w2) /\ wk[w1].job.AnalysisID = wk[w2].job.AnalysisID => w1 = w2

\* Two producers have enqueued and both workers have received a job.
AtMostOnceDequeueWitness ==
  /\ \A w \in Workers : Busy(w)
  /\ \A id \in DOMAIN runs : runs[id] = 1
  /\ Cardinality(DOMAIN runs) = NumWorkers

\* C5: each worker is inside at most one AnalyzePCAP call, and at most
\* NumWorkers calls are in progress.
OneJobPerWorker ==
  /\ \A w \in Workers : Cardinality({c \in calling : c[1] = w}) <= 1
  /\ \A w \in Workers : Busy(w) <=> <<w, wk[w].job.AnalysisID>> \in calling
  /\ Cardinality(calling) <= NumWorkers

\* The pool is saturated: every worker is inside a call, at different points.
OneJobPerWorkerWitness ==
  /\ Cardinality(calling) = NumWorkers
  /\ wk[1].pc = "save" /\ wk[2].pc = "start"

\* The status write sequences of the state machine pending -> processing ->
\* completed | failed.
LegalStatusHistories ==
  {<<"pending">>, <<"pending", "processing">>,
   <<"pending", "processing", "completed">>, <<"pending", "processing", "failed">>}

\* C4: the statuses written for an analysis are, in order, a prefix of
\* pending, processing, completed or of pending, processing, failed, so nothing
\* is written after 'completed' or 'failed'; the stored status is the last one
\* written, and it is 'pending' until AnalyzePCAP starts for the analysis.
StatusOrder ==
  \A id \in DOMAIN writes :
    /\ writes[id] \in LegalStatusHistories
    /\ id \in DOMAIN analyses => analyses[id].status = writes[id][Len(writes[id])]
    /\ runs[id] = 0 => writes[id] = <<"pending">>

\* One analysis has ended 'failed', another 'completed'.
StatusOrderWitness ==
  \E a, b \in DOMAIN writes :
    /\ writes[a] = <<"pending", "processing", "failed">>
    /\ writes[b] = <<"pending", "processing", "completed">>
    /\ result[a] = "failed to open pcap file" /\ result[b] = "nil"

\* What a capture yields when it is analysed alone, per kind of record.
ReferenceRows ==
  [c \in Contents \cup {"truncated", "mixed"} |-> RowsOf(FinalizeJob(RunPackets(NewJobState, CaptureOf(c))), 0)]

AllRows(rows) == rows.assets \cup rows.targets \cup rows.tcp \cup rows.udp \cup rows.icmp

ExpectedUnder(id) ==
  LET c == disk[analyses[id].filename] IN
  IF c = "corrupt" THEN {}
  ELSE {[r EXCEPT !.AnalysisID = id] : r \in AllRows(ReferenceRows[c])}

SavedUnder(id) ==
  {r \in db.assets \cup db.targets \cup db.tcp_connections \cup db.other_connections :
     r.AnalysisID = id}

DroppedUnder(id) == {r \in dropped : r.AnalysisID = id}

\* C3: the records saved under an analysis id are records of that job's own
\* capture analysed alone, and once the call has gone through its save loops
\* they are all of them, except those whose save failed.
JobIsolation ==
  \A id \in DOMAIN analyses :
    /\ SavedUnder(id) \subseteq ExpectedUnder(id)
    /\ result[id] \in {"nil", "failed to update final status"}
         => SavedUnder(id) \cup DroppedUnder(id) = ExpectedUnder(id)

\* Two workers are in their save loops at the same time, for different
\* captures, each with a record already saved.
JobIsolationWitness ==
  \E w1, w2 \in Workers :
    /\ w1 # w2
    /\ wk[w1].pc = "save" /\ wk[w2].pc = "save"
    /\ disk[wk[w1].job.PcapPath] # disk[wk[w2].job.PcapPath]
    /\ SavedUnder(wk[w1].job.AnalysisID) # {}
    /\ SavedUnder(wk[w2].job.AnalysisID) # {}


----------------------------------------------------------------------------
(* Properties of the error paths of AnalyzePCAP, checked under Spec *)

\* C12: when pcap.OpenOffline fails, the call returns the open error, the
\* status write to 'failed' with the error's message is made (and is what the
\* analysis shows unless the database rejects that very statement), and no
\* record is ever saved or attempted for the analysis.
OpenFailureHandled ==
  /\ [](\A id \in DOMAIN result :
          result[id] = "failed to open pcap file"
            => SavedUnder(id) = {} /\ DroppedUnder(id) = {})
  /\ [][\A w \in Workers :
          (/\ wk[w].pc = "open"
           /\ ~OpensOffline(disk, wk[w].job.PcapPath)
           /\ wk'[w].pc # "open")
          => LET id == wk[w].job.AnalysisID IN
             /\ result'[id] = "failed to open pcap file"
             /\ faults' = faults =>
                  /\ analyses'[id].status = "failed"
                  /\ analyses'[id].error_msg = "open error"]_vars

\* An analysis of a file that does not open has ended 'failed'.
OpenFailureHandledWitness ==
  \E id \in DOMAIN analyses :
    /\ disk[analyses[id].filename] = "corrupt"
    /\ result[id] = "failed to open pcap file"
    /\ analyses[id].status = "failed" /\ analyses[id].error_msg = "open error"
    /\ SavedUnder(id) = {}



\* C14: a job whose status write to 'processing' was rejected ends in status
\* 'failed' with an error message attached.
ProcessingFailureFailsJob ==
  \A id \in DOMAIN result :
    result[id] = "failed to update status"
      => analyses[id].status = "failed" /\ analyses[id].error_msg # ""

\* The step is worker w's status write, and the database rejected it.
StatusWriteRejected(w) ==
  /\ wk'[w] # wk[w]
  /\ faults' # faults
  /\ \/ wk[w].pc = "start"
     \/ wk[w].pc = "save" /\ CurrentKind(wk[w].pending) = "none"

\* C15: when the status write to 'processing' or to 'completed' is rejected,
\* AnalyzePCAP returns a non-nil error to the worker at that step; a call
\* that returned nil has written 'completed'; and a call that failed on the
\* write to 'processing' returned from there, without opening the source,
\* and no record was saved or attempted for its analysis.
StatusFailureSurfaced ==
  /\ [](\A id \in DOMAIN result :
          /\ result[id] = "nil" => analyses[id].status = "completed"
          /\ result[id] = "failed to update status"
               => /\ SavedUnder(id) = {} /\ DroppedUnder(id) = {}
                  /\ writes[id] = <<"pending">>)
  /\ [][\A w \in Workers :
          StatusWriteRejected(w)
            => LET id == wk[w].job.AnalysisID IN
               /\ wk'[w].pc = "idle"
               /\ result'[id] = IF wk[w].pc = "start"
                                THEN "failed to update status"
                                ELSE "failed to update final status"]_vars

StatusFailureSurfacedWitness ==
  \E id1, id2 \in DOMAIN result :
    /\ result[id1] = "failed to update status"
    /\ result[id2] = "nil"
    /\ SavedUnder(id2) # {}


----------------------------------------------------------------------------
(* Properties of the save loops, checked under SpecS *)

\* The step is an iteration of one of worker w's save loops.
SaveStep(w) ==
  /\ wk[w].pc = "save"
  /\ CurrentKind(wk[w].pending) # "none"
  /\ wk'[w] # wk[w]

\* C16: a save that fails does not end the call: the worker goes on with the
\* remaining records, each save loop step attempts exactly one more record
\* of the job, and a worker that has attempted every record and whose final
\* status write succeeds leaves the analysis 'completed', whichever of the
\* saves failed.
BestEffortSaves ==
  /\ [](\A id \in DOMAIN result :
          result[id] = "nil"
            => /\ analyses[id].status = "completed"
               /\ SavedUnder(id) \cup DroppedUnder(id) = ExpectedUnder(id)
               /\ SavedUnder(id) \cap DroppedUnder(id) = {})
  /\ [][\A w \in Workers :
          SaveStep(w)
            => LET id == wk[w].job.AnalysisID IN
               /\ wk'[w].pc = "save"
               /\ result'[id] = "none"
               /\ Cardinality(AllRows(wk'[w].pending))
                    = Cardinality(AllRows(wk[w].pending)) - 1
               /\ Cardinality(SavedUnder(id)') + Cardinality(DroppedUnder(id)')
                    = Cardinality(SavedUnder(id)) + Cardinality(DroppedUnder(id)) + 1]_vars

\* An analysis is 'completed' with its TCP and ICMP records saved and its
\* asset and its UDP record lost.
BestEffortSavesWitness ==
  \E id \in DOMAIN result :
    /\ result[id] = "nil"
    /\ analyses[id].status = "completed"
    /\ \E a \in ReferenceRows["mixed"].assets, u \in ReferenceRows["mixed"].udp,
          t \in ReferenceRows["mixed"].tcp, i \in ReferenceRows["mixed"].icmp :
         /\ {[r EXCEPT !.AnalysisID = id] : r \in {a, u}} \subseteq DroppedUnder(id)
         /\ {[r EXCEPT !.AnalysisID = id] : r \in {t, i}} \subseteq SavedUnder(id)


----------------------------------------------------------------------------
(* Properties of the worker loop and of shutdown, checked under SpecW *)

\* AnalyzePCAP returned an error for the analysis.
Failed(id) == result[id] \notin {"none", "nil"}

\* C17: when AnalyzePCAP returns, with an error or without, the worker is
\* back at its select, the other workers and the pool are as they were, and
\* the worker receives the next job as soon as one is queued; a worker leaves
\* its loop only from the select, by receiving its quit signal, which is sent
\* only when the pool is stopped.
WorkerSurvivesFailure ==
  /\ [](\A w \in Workers :
          /\ proc = "running" => wk[w].pc # "exited"
          /\ wk[w].pc = "idle" /\ queue # <<>> /\ proc # "exited"
               => ENABLED Dequeue(w))
  /\ [][\A w \in Workers :
          /\ Busy(w) /\ ~Busy(w)'
               => /\ wk'[w] = IdleWorker
                  /\ proc' = proc /\ quitPending' = quitPending
                  /\ \A v \in Workers \ {w} : wk'[v] = wk[v]
          /\ wk[w].pc # "exited" /\ wk'[w].pc = "exited"
               => wk[w].pc = "idle" /\ quitPending[w]]_vars

\* The first job is still with worker 2; worker 1 got an error for the second
\* job and is analysing the third.
WorkerSurvivesFailureWitness ==
  /\ Busy(2) /\ wk[2].job.AnalysisID = 1
  /\ 2 \in DOMAIN result /\ Failed(2)
  /\ wk[1].pc = "read" /\ wk[1].job.AnalysisID = 3



\* The step is worker w receiving a job from JobQueue.
Receives(w) == wk[w].pc = "idle" /\ wk'[w].pc = "start"

\* C21: the job a worker receives is always the one whose send completed
\* first among the jobs sent and not yet received, so a job whose send
\* completed before another's is received no later than it; the queue holds
\* exactly the jobs not yet received, in the order of their sends.
QueueIsFIFO ==
  /\ [](/\ Len(queue) = Len(waiting)
        /\ \A i \in 1..Len(queue) : queue[i].AnalysisID = waiting[i]
        /\ \A i, k \in 1..Len(waiting) : i # k => waiting[i] # waiting[k])
  /\ [][\A w \in Workers :
          Receives(w)
            => /\ waiting # <<>>
               /\ wk'[w].job.AnalysisID = Head(waiting)
               /\ waiting' = Tail(waiting)]_vars

\* The second analysis was sent before the first and the third: a worker has
\* received it, and the other two wait in the order of their sends.
QueueIsFIFOWitness ==
  /\ waiting = <<1, 3>>
  /\ \E w \in Workers : wk[w].pc = "start" /\ wk[w].job.AnalysisID = 2
  /\ \E w \in Workers : wk[w].pc = "idle"

\* C18: a worker whose stop signal is pending on its quit channel receives no
\* job from JobQueue.
NoDequeueAfterStop ==
  [][\A w \in Workers :
       quitPending[w] => ~(wk[w].pc = "idle" /\ wk'[w].pc = "start")]_vars

AllWorkersExited == \A w \in Workers : wk[w].pc = "exited"

\* C19: once every worker has exited, the jobs in JobQueue have never been
\* handed to AnalyzePCAP, the only status ever written for them is the
\* 'pending' of their creation, and from then on no job leaves the queue, no
\* worker runs and no status or record is written.
AbandonedStayPending ==
  /\ [](AllWorkersExited
          => \A i \in 1..Len(queue) :
               LET id == queue[i].AnalysisID IN
               /\ runs[id] = 0
               /\ result[id] = "none"
               /\ writes[id] = <<"pending">>
               /\ analyses[id].status = "pending" /\ analyses[id].error_msg = "")
  /\ [][AllWorkersExited
          => /\ AllWorkersExited'
             /\ Len(queue') >= Len(queue) /\ SubSeq(queue', 1, Len(queue)) = queue
             /\ db' = db
             /\ \A id \in DOMAIN analyses :
                  /\ analyses'[id] = analyses[id]
                  /\ runs'[id] = runs[id]
                  /\ writes'[id] = writes[id]]_vars

\* The process has exited after analysing the first job, with two jobs still
\* in the queue.
AbandonedStayPendingWitness ==
  /\ proc = "exited"
  /\ AllWorkersExited
  /\ Len(queue) = 2
  /\ 1 \in DOMAIN result /\ result[1] = "nil"

----------------------------------------------------------------------------
(* Properties of read errors, checked under SpecR *)

\* The file the analysis was uploaded as ends in a read error.
SourceFails(id) == EndsInError(disk[analyses[id].filename])

\* C13: an analysis whose source fails while it is read never gets to the
\* save loops or to status 'completed': only a source that is exhausted
\* normally does.
ReadErrorFailsJob ==
  /\ \A w \in Workers :
       Busy(w) /\ SourceFails(wk[w].job.AnalysisID) => wk[w].pc # "save"
  /\ \A id \in DOMAIN analyses : SourceFails(id) => analyses[id].status # "completed"


----------------------------------------------------------------------------
(* Liveness of the pool, checked under SpecL *)

InQueue(id) == \E i \in 1..Len(queue) : queue[i].AnalysisID = id

\* The job has been received once, by one worker.
Received(id) == id \in DOMAIN runs /\ runs[id] = 1 /\ ~InQueue(id)

Terminal(id) == id \in DOMAIN analyses /\ analyses[id].status \in {"completed", "failed"}

\* C20: every job in JobQueue is eventually received by a worker, and the
\* analysis of every job eventually has status 'completed' or 'failed'.
EveryJobTerminates ==
  \A id \in 1..MaxLiveJobs :
    /\ InQueue(id) ~> Received(id)
    /\ InQueue(id) ~> Terminal(id)

----------------------------------------------------------------------------
(* Properties of the job queue at capacity, checked under SpecQ *)

\* C2: the queue never holds more than JobQueueCap jobs; a handler at the send
\* cannot complete it while JobQueueCap jobs are queued, whatever the workers
\* are doing, and can complete it whenever fewer are queued.
QueueBackpressure ==
  /\ Len(queue) <= JobQueueCap
  /\ \A j \in senders : (ENABLED Enqueue(j)) <=> Len(queue) < JobQueueCap

\* A handler is blocked at the send on a full queue while a worker is
\* analysing and the other one is free to dequeue.
QueueBackpressureWitness ==
  /\ Len(queue) = JobQueueCap
  /\ senders # {}
  /\ \E w1, w2 \in Workers : Busy(w1) /\ wk[w2].pc = "idle"

====
